---------------------------- MODULE Spec2Model ----------------------------
(***************************************************************************)
(* Webhook verification of the cloudconvert client library:                *)
(* webhook::Event::from_json (src/src/webhook.rs) with the typed JSON      *)
(* deserialisation of job::Job and task::Status it relies on.              *)
(*                                                                         *)
(* Text (the payload, the signature header) is a TLA+ string, read one     *)
(* character at a time with SubSeq; a byte is an integer in 0..255.        *)
(***************************************************************************)
EXTENDS Integers, Sequences, FiniteSets, TLC

\* The length of the signature buffers of from_json, `[0; 32]` / `[u8; 32]`.
SigLen == 32

(***************************************************************************)
(* Bytes of text.                                                          *)
(***************************************************************************)

\* The printable ASCII characters 32..95 and 97..126, in code order.
AsciiLow == " !\"#$%&'()*+,-./0123456789:;<=>?@ABCDEFGHIJKLMNOPQRSTUVWXYZ[\\]^_"
AsciiHigh == "abcdefghijklmnopqrstuvwxyz{|}~"

CharAt(s, i) == SubSeq(s, i, i)

\* The byte value of every character of the model's alphabet.
OrdTable ==
    [c \in {CharAt(AsciiLow, i) : i \in 1..Len(AsciiLow)}
           \cup {CharAt(AsciiHigh, i) : i \in 1..Len(AsciiHigh)} |->
        IF \E i \in 1..Len(AsciiLow) : CharAt(AsciiLow, i) = c
        THEN 31 + (CHOOSE i \in 1..Len(AsciiLow) : CharAt(AsciiLow, i) = c)
        ELSE 96 + (CHOOSE i \in 1..Len(AsciiHigh) : CharAt(AsciiHigh, i) = c)]

Ord(c) == OrdTable[c]

\* `str.as_bytes()`: the bytes of a text.
AsBytes(s) == SubSeq([i \in 1..Len(s) |-> Ord(CharAt(s, i))], 1, Len(s))

\* Concatenation of the strings f[lo], ..., f[hi] (split in halves, so that the
\* evaluation nests only logarithmically deep).
RECURSIVE Concat(_, _, _)
Concat(f, lo, hi) ==
    IF lo > hi THEN ""
    ELSE IF lo = hi THEN f[lo]
    ELSE LET mid == (lo + hi) \div 2
         IN  Concat(f, lo, mid) \o Concat(f, mid + 1, hi)

\* The sum of f[lo], ..., f[hi].
RECURSIVE Sum(_, _, _)
Sum(f, lo, hi) ==
    IF lo > hi THEN 0
    ELSE IF lo = hi THEN f[lo]
    ELSE LET mid == (lo + hi) \div 2
         IN  Sum(f, lo, mid) + Sum(f, mid + 1, hi)

(***************************************************************************)
(* The hex crate, as from_json and the tests use it.                       *)
(***************************************************************************)

HexCharsLower == "0123456789abcdef"

\* hex::encode: two lower-case digits per byte, high nibble first.
encode(bytes) ==
    Concat([i \in 1..Len(bytes) |->
               CharAt(HexCharsLower, (bytes[i] \div 16) + 1)
                   \o CharAt(HexCharsLower, (bytes[i] % 16) + 1)],
           1, Len(bytes))

\* A faulty `val`, which knows the lower-case digits only.
val_lower_case_only(c) ==
    LET b == Ord(c)
    IN  IF b \in 97..102 THEN b - 97 + 10
        ELSE IF b \in 48..57 THEN b - 48
        ELSE -1

\* hex's `val`: the value of one hex digit, either case; -1 for any other byte.
val(c) ==
    LET b == Ord(c)
    IN  IF b \in 65..70 THEN b - 65 + 10
        ELSE IF b \in 97..102 THEN b - 97 + 10
        ELSE IF b \in 48..57 THEN b - 48
        ELSE -1

\* A faulty decode_to_slice, which takes the low nibble of a byte first.
decode_low_nibble_first(data, out) ==
    IF Len(data) % 2 # 0
    THEN [ok |-> FALSE, cause |-> "OddLength", index |-> 0, out |-> out]
    ELSE IF Len(data) \div 2 # Len(out)
    THEN [ok |-> FALSE, cause |-> "InvalidStringLength", index |-> 0, out |-> out]
    ELSE LET v == SubSeq([i \in 1..Len(data) |-> val(CharAt(data, i))], 1, Len(data))
         IN  IF \E i \in 1..Len(data) : v[i] < 0
             THEN [ok |-> FALSE, cause |-> "InvalidHexCharacter", index |-> 0, out |-> out]
             ELSE [ok |-> TRUE, cause |-> "", index |-> 0,
                   out |-> [i \in 1..Len(out) |-> v[2 * i] * 16 + v[2 * i - 1]]]

\* A faulty decode_to_slice, which does not compare the lengths: it decodes
\* the bytes that are there and fit, and leaves the rest of `out` as it was.
decode_any_length(data, out) ==
    LET n == IF Len(data) \div 2 < Len(out) THEN Len(data) \div 2 ELSE Len(out)
        v == SubSeq([i \in 1..(2 * n) |-> val(CharAt(data, i))], 1, 2 * n)
    IN  IF \E i \in 1..(2 * n) : v[i] < 0
        THEN [ok |-> FALSE, cause |-> "InvalidHexCharacter", index |-> 0, out |-> out]
        ELSE [ok |-> TRUE, cause |-> "", index |-> 0,
              out |-> [i \in 1..Len(out) |->
                          IF i <= n THEN v[2 * i - 1] * 16 + v[2 * i] ELSE out[i]]]

\* hex::decode_to_slice(data, out): OddLength, then InvalidStringLength, and
\* then the bytes are written to `out` one by one until a character that is
\* no hex digit (`index` is its 0-based place).  `out` is the buffer as it is
\* left behind.
decode_to_slice(data, out) ==
    IF Len(data) % 2 # 0
    THEN [ok |-> FALSE, cause |-> "OddLength", index |-> 0, out |-> out]
    ELSE IF Len(data) \div 2 # Len(out)
    THEN [ok |-> FALSE, cause |-> "InvalidStringLength", index |-> 0, out |-> out]
    ELSE LET v == SubSeq([i \in 1..Len(data) |-> val(CharAt(data, i))], 1, Len(data))
             bad == {i \in 1..Len(data) : v[i] < 0}
             first == IF bad = {} THEN Len(data) + 1
                      ELSE CHOOSE i \in bad : \A j \in bad : i <= j
             written == [i \in 1..Len(out) |->
                            IF 2 * i < first THEN v[2 * i - 1] * 16 + v[2 * i] ELSE out[i]]
         IN  IF bad # {}
             THEN [ok |-> FALSE, cause |-> "InvalidHexCharacter",
                   index |-> first - 1, out |-> written]
             ELSE [ok |-> TRUE, cause |-> "", index |-> 0, out |-> written]

(***************************************************************************)
(* The MAC.  Hmac::<Sha256> is the hmac and sha2 crates' code; the model   *)
(* keeps what from_json relies on: new_from_slice accepts a key of any     *)
(* length, and finalize yields SigLen bytes that are a function of every   *)
(* byte of the key and of the message.  The digest itself is replaced by   *)
(* a small position-weighted mixing function.                              *)
(***************************************************************************)

\* A faulty new_from_slice, which refuses the empty key (InvalidLength).
new_from_slice_nonempty(key) == [ok |-> Len(key) > 0, key |-> key]

\* Mac::new_from_slice: HMAC takes keys of every length, so this never fails.
new_from_slice(key) == [ok |-> TRUE, key |-> key]

Weighted(bytes) == Sum([i \in 1..Len(bytes) |-> (2 * i + 1) * (bytes[i] + 1)], 1, Len(bytes))

\* mac.update(json); mac.finalize().into_bytes(): the SigLen bytes of the tag.
finalize(key, msg) ==
    LET h0 == (17 + 31 * Weighted(key) + 7 * Len(key)) % 65521
        h1 == (h0 * 131 + Weighted(msg) + 3 * Len(msg)) % 65521
    IN  [i \in 1..SigLen |-> ((h1 * (2 * i + 1) + h0 * i + i * i) \div 7) % 256]


(***************************************************************************)
(* serde_json's reading of a text as a JSON document.  The reader is the   *)
(* serde_json crate's; the model recognises the same language by           *)
(* structure: the characters outside strings, the nesting level of each,   *)
(* and from those the members of every object and array.  The alphabet is  *)
(* printable ASCII, so the only whitespace is the space, and an escape     *)
(* that denotes a character outside the alphabet (a line feed, a \u      *)
(* escape) is read as "?".                                                 *)
(***************************************************************************)

Min(S) == CHOOSE x \in S : \A y \in S : x <= y
Max(S) == CHOOSE x \in S : \A y \in S : y <= x

\* The k-th smallest element of a set of integers.
Kth(S, k) == CHOOSE i \in S : Cardinality({j \in S : j < i}) = k - 1

Digits == {"0", "1", "2", "3", "4", "5", "6", "7", "8", "9"}
HexDigits == Digits \cup {"a", "b", "c", "d", "e", "f", "A", "B", "C", "D", "E", "F"}

\* A JSON value: t is its kind ("null", "bool", "num", "str", "arr", "obj"),
\* s the text of a scalar, kids the elements of an array or the members
\* <<[k |-> key, v |-> value], ...>> of an object, in document order.
JNull == [t |-> "null", s |-> "", kids |-> <<>>]
JBool(text) == [t |-> "bool", s |-> text, kids |-> <<>>]
JNum(text) == [t |-> "num", s |-> text, kids |-> <<>>]
JStr(text) == [t |-> "str", s |-> text, kids |-> <<>>]
JArr(elems) == [t |-> "arr", s |-> "", kids |-> elems]
JObj(members) == [t |-> "obj", s |-> "", kids |-> members]

JErr == [ok |-> FALSE, v |-> JNull]
JOk(value) == [ok |-> TRUE, v |-> value]

\* What the reader knows of each place i of the text: its character ch[i];
\* uq[i], an unescaped double quote; out[i], outside every string; lvl[i],
\* the number of brackets open at i (an opening bracket counts itself).
Scan(s) ==
    LET n == Len(s)
        ch == SubSeq([i \in 1..n |-> CharAt(s, i)], 1, n)
        bsRun(i) == IF i = 1 \/ ch[i - 1] # "\\" THEN 0
                    ELSE (i - 1) - Max({m \in 0..(i - 1) : m = 0 \/ ch[m] # "\\"})
        uq == SubSeq([i \in 1..n |-> ch[i] = "\"" /\ bsRun(i) % 2 = 0], 1, n)
        qc == SubSeq([i \in 1..n |-> Cardinality({j \in 1..i : uq[j]})], 1, n)
        out == SubSeq([i \in 1..n |-> ~uq[i] /\ qc[i] % 2 = 0], 1, n)
        opens == {i \in 1..n : out[i] /\ ch[i] \in {"{", "["}}
        closes == {i \in 1..n : out[i] /\ ch[i] \in {"}", "]"}}
        lvl == SubSeq([i \in 1..n |-> Cardinality({j \in opens : j <= i})
                                       - Cardinality({j \in closes : j < i})], 1, n)
    IN  [s |-> s, n |-> n, ch |-> ch, uq |-> uq, out |-> out, lvl |-> lvl]

\* The string between the quotes at p and q, its escapes resolved.
ReadString(sc, p, q) ==
    LET ch == sc.ch
        inside == (p + 1)..(q - 1)
        run(i) == IF ch[i - 1] # "\\" THEN 0
                  ELSE (i - 1) - Max({m \in p..(i - 1) : ch[m] # "\\"})
        intro(i) == ch[i] = "\\" /\ run(i) % 2 = 0
        esc(i) == i > p + 1 /\ ch[i - 1] = "\\" /\ intro(i - 1)
        uni(i) == \E j \in ((i - 4)..(i - 1)) \cap inside : esc(j) /\ ch[j] = "u"
        okEsc(i) ==
            \/ ch[i] \in {"\"", "\\", "/", "b", "f", "n", "r", "t"}
            \/ /\ ch[i] = "u"
               /\ i + 4 <= q - 1
               /\ \A j \in (i + 1)..(i + 4) : ch[j] \in HexDigits
        piece(i) == IF intro(i) \/ uni(i) THEN ""
                    ELSE IF esc(i)
                         THEN (IF ch[i] \in {"\"", "\\", "/"} THEN ch[i] ELSE "?")
                         ELSE ch[i]
    IN  IF \A i \in inside : ch[i] # "\\"
        THEN JOk(JStr(SubSeq(sc.s, p + 1, q - 1)))
        ELSE IF \A i \in inside : esc(i) => okEsc(i)
             THEN JOk(JStr(Concat([i \in inside |-> piece(i)], p + 1, q - 1)))
             ELSE JErr

\* A number occupying exactly p..q: -?(0|[1-9][0-9]*)(.[0-9]+)?([eE][+-]?[0-9]+)?
ReadNumber(sc, p, q) ==
    LET ch == sc.ch
        digitsEnd(from) ==
            Min({j \in from..(q + 1) : j = q + 1 \/ ch[j] \notin Digits}) - 1
        i0 == IF ch[p] = "-" THEN p + 1 ELSE p
        intEnd == digitsEnd(i0)
        hasFrac == intEnd + 1 <= q /\ ch[intEnd + 1] = "."
        fracEnd == IF hasFrac THEN digitsEnd(intEnd + 2) ELSE intEnd
        hasExp == fracEnd + 1 <= q /\ ch[fracEnd + 1] \in {"e", "E"}
        e0 == IF fracEnd + 2 <= q /\ ch[fracEnd + 2] \in {"+", "-"}
              THEN fracEnd + 3 ELSE fracEnd + 2
        expEnd == IF hasExp THEN digitsEnd(e0) ELSE fracEnd
    IN  IF /\ i0 <= q
           /\ intEnd >= i0
           /\ (ch[i0] = "0" => intEnd = i0)
           /\ (hasFrac => fracEnd >= intEnd + 2)
           /\ (hasExp => expEnd >= e0)
           /\ expEnd = q
        THEN JOk(JNum(SubSeq(sc.s, p, q)))
        ELSE JErr

RECURSIVE ReadValue(_, _, _)
RECURSIVE ReadMember(_, _, _)

\* The parts of the bracket pair p..q: the spans between the commas of its
\* own level, each read with Item (a value, or a `"key": value` member).
ReadItems(sc, p, q, asMembers) ==
    LET commas == {i \in (p + 1)..(q - 1) :
                      sc.ch[i] = "," /\ sc.out[i] /\ sc.lvl[i] = sc.lvl[p]}
        m == Cardinality(commas) + 1
        from(k) == IF k = 1 THEN p + 1 ELSE Kth(commas, k - 1) + 1
        to(k) == IF k = m THEN q - 1 ELSE Kth(commas, k) - 1
        items == SubSeq([k \in 1..m |->
                            IF asMembers THEN ReadMember(sc, from(k), to(k))
                            ELSE ReadValue(sc, from(k), to(k))], 1, m)
    IN  IF \A i \in (p + 1)..(q - 1) : sc.ch[i] = " "
        THEN JOk(IF asMembers THEN JObj(<<>>) ELSE JArr(<<>>))
        ELSE IF \A k \in 1..m : items[k].ok
             THEN JOk(IF asMembers
                      THEN JObj([k \in 1..m |-> items[k].v])
                      ELSE JArr([k \in 1..m |-> items[k].v]))
             ELSE JErr

\* One member of an object, in a..b: a string, a colon, a value.
ReadMember(sc, a, b) ==
    LET nonws == {i \in a..b : sc.ch[i] # " "}
        p == Min(nonws)
        ends == {j \in (p + 1)..b : sc.uq[j]}
        e == Min(ends)
        key == ReadString(sc, p, e)
        rest == {i \in (e + 1)..b : sc.ch[i] # " "}
        colon == Min(rest)
        value == ReadValue(sc, colon + 1, b)
    IN  IF nonws = {} \/ ~sc.uq[p] \/ ends = {} THEN [ok |-> FALSE, v |-> [k |-> "", v |-> JNull]]
        ELSE IF ~key.ok \/ rest = {} \/ sc.ch[colon] # ":" \/ ~value.ok
             THEN [ok |-> FALSE, v |-> [k |-> "", v |-> JNull]]
             ELSE [ok |-> TRUE, v |-> [k |-> key.v.s, v |-> value.v]]

\* The one value that, with whitespace around it, fills a..b.
ReadValue(sc, a, b) ==
    LET nonws == {i \in a..b : sc.ch[i] # " "}
        p == Min(nonws)
        q == IF sc.ch[b] # " " THEN b ELSE Max(nonws)
        c == sc.ch[p]
        text == SubSeq(sc.s, p, q)
        \* the bracket closing the one at p is the first of p's level after it
        closed == /\ q > p
                  /\ sc.out[q]
                  /\ sc.lvl[q] = sc.lvl[p]
                  /\ \A j \in (p + 1)..(q - 1) :
                         ~(sc.out[j] /\ sc.ch[j] \in {"}", "]"} /\ sc.lvl[j] = sc.lvl[p])
    IN  IF nonws = {} THEN JErr
        ELSE IF c = "{"
             THEN (IF sc.ch[q] = "}" /\ closed THEN ReadItems(sc, p, q, TRUE) ELSE JErr)
        ELSE IF c = "["
             THEN (IF sc.ch[q] = "]" /\ closed THEN ReadItems(sc, p, q, FALSE) ELSE JErr)
        ELSE IF c = "\""
             THEN (IF q > p /\ sc.uq[p] /\ sc.uq[q] /\ \A j \in (p + 1)..(q - 1) : ~sc.uq[j]
                   THEN ReadString(sc, p, q) ELSE JErr)
        ELSE IF c = "-" \/ c \in Digits THEN ReadNumber(sc, p, q)
        ELSE IF text = "null" THEN JOk(JNull)
        ELSE IF text = "true" \/ text = "false" THEN JOk(JBool(text))
        ELSE JErr

\* serde_json's reading of the whole text: one value and nothing after it.
ReadDocument(s) == IF Len(s) = 0 THEN JErr ELSE ReadValue(Scan(s), 1, Len(s))

(***************************************************************************)
(* serde's derived Deserialize of the library's types, applied to a JSON   *)
(* value.  A struct is read from an object by key (unknown keys are        *)
(* skipped, a repeated key of a field is an error, a missing field takes   *)
(* its #[serde(default)] or is an error) or from an array by position.     *)
(* An Option is None for null; a unit-variant enum is read from the        *)
(* variant's string, or from an object {"<variant>": null}.                *)
(***************************************************************************)

NoneStr == [some |-> FALSE, val |-> ""]
SomeStr(x) == [some |-> TRUE, val |-> x]
NoneNum == [some |-> FALSE, val |-> 0]
NoneMap == [some |-> FALSE, val |-> <<>>]

\* The first field, in declaration order, whose serde name is `key`; 0 if none.
\* (The generated field matcher is a `match` on the names, first arm first.)
FieldOfKey(names, key) ==
    IF \E i \in 1..Len(names) : names[i] = key
    THEN Min({i \in 1..Len(names) : names[i] = key})
    ELSE 0

\* A faulty Lookup, of a struct that denies unknown fields: a key that names
\* no field is an error.
LookupDenyUnknown(j, names, idx) ==
    IF j.t = "obj"
    THEN LET occ == {i \in 1..Len(j.kids) : FieldOfKey(names, j.kids[i].k) = idx}
         IN  IF \E i \in 1..Len(j.kids) : FieldOfKey(names, j.kids[i].k) = 0
             THEN [st |-> "unknown", v |-> JNull]
             ELSE IF occ = {} THEN [st |-> "missing", v |-> JNull]
             ELSE IF Cardinality(occ) > 1 THEN [st |-> "duplicate", v |-> JNull]
             ELSE [st |-> "present", v |-> j.kids[Min(occ)].v]
    ELSE IF idx <= Len(j.kids) THEN [st |-> "present", v |-> j.kids[idx]]
         ELSE [st |-> "missing", v |-> JNull]

\* What the input holds for field number idx of a struct with these names.
Lookup(j, names, idx) ==
    IF j.t = "obj"
    THEN LET occ == {i \in 1..Len(j.kids) : FieldOfKey(names, j.kids[i].k) = idx}
         IN  IF occ = {} THEN [st |-> "missing", v |-> JNull]
             ELSE IF Cardinality(occ) > 1 THEN [st |-> "duplicate", v |-> JNull]
             ELSE [st |-> "present", v |-> j.kids[Min(occ)].v]
    ELSE IF idx <= Len(j.kids) THEN [st |-> "present", v |-> j.kids[idx]]
         ELSE [st |-> "missing", v |-> JNull]

\* A struct is read from an object, or from an array no longer than its fields.
StructShape(j, names) == j.t = "obj" \/ (j.t = "arr" /\ Len(j.kids) <= Len(names))

DeString(j) == IF j.t = "str" THEN [ok |-> TRUE, v |-> j.s] ELSE [ok |-> FALSE, v |-> ""]

\* A faulty Option<String>, which takes a string and nothing else.
DeOptStringNoNull(j) ==
    [ok |-> j.t = "str", v |-> IF j.t = "str" THEN SomeStr(j.s) ELSE NoneStr]

DeOptString(j) ==
    IF j.t = "null" THEN [ok |-> TRUE, v |-> NoneStr]
    ELSE [ok |-> j.t = "str", v |-> IF j.t = "str" THEN SomeStr(j.s) ELSE NoneStr]

\* A unit-variant enum; variants is <<[name |-> serde name, variant |-> ...], ...>>.
DeUnitEnum(j, variants) ==
    LET tag == IF j.t = "str" THEN j.s
               ELSE IF j.t = "obj" /\ Len(j.kids) = 1 /\ j.kids[1].v.t = "null"
                    THEN j.kids[1].k
                    ELSE ""
        hit == {i \in 1..Len(variants) : variants[i].name = tag}
    IN  IF (j.t = "str" \/ (j.t = "obj" /\ Len(j.kids) = 1 /\ j.kids[1].v.t = "null"))
           /\ hit # {}
        THEN [ok |-> TRUE, v |-> variants[Min(hit)].variant]
        ELSE [ok |-> FALSE, v |-> ""]

\* webhook::EventKind and its #[serde(rename)] names.
EventKindVariants ==
    << [name |-> "job.created", variant |-> "JobCreated"],
       [name |-> "job.finished", variant |-> "JobFinished"],
       [name |-> "job.failed", variant |-> "JobFailed"] >>

\* A faulty EventKind, with a catch-all variant for the names it does not know.
DeEventKindWithOther(j) ==
    IF j.t = "str" /\ \A i \in 1..Len(EventKindVariants) : EventKindVariants[i].name # j.s
    THEN [ok |-> TRUE, v |-> "JobCreated"]
    ELSE DeUnitEnum(j, EventKindVariants)

DeEventKind(j) == DeUnitEnum(j, EventKindVariants)

\* crate::Status and its #[serde(rename)] names.
StatusVariants ==
    << [name |-> "waiting", variant |-> "Waiting"],
       [name |-> "processing", variant |-> "Processing"],
       [name |-> "finished", variant |-> "Finished"],
       [name |-> "error", variant |-> "Error"] >>

\* A faulty Status, which takes a string that names no variant as Error.
DeStatusLenient(j) ==
    IF j.t = "str" /\ ~DeUnitEnum(j, StatusVariants).ok THEN [ok |-> TRUE, v |-> "Error"]
    ELSE DeUnitEnum(j, StatusVariants)

DeStatus(j) == DeUnitEnum(j, StatusVariants)

\* Some(r.v) of a successful read r of the inner type.
SomeOf(r) == [ok |-> r.ok, v |-> IF r.ok THEN SomeStr(r.v) ELSE NoneStr]

DeOptStatus(j) ==
    IF j.t = "null" THEN [ok |-> TRUE, v |-> NoneStr] ELSE SomeOf(DeStatus(j))

\* The value of a text of n decimal digits.
Decimal(text, n) ==
    Sum([i \in 1..n |-> (Ord(CharAt(text, i)) - 48) * (10 ^ (n - i))], 1, n)

\* u16: a non-negative integer literal up to 65535.
IsU16(j) ==
    /\ j.t = "num"
    /\ Len(j.s) <= 5
    /\ \A i \in 1..Len(j.s) : CharAt(j.s, i) \in Digits
    /\ Decimal(j.s, Len(j.s)) <= 65535

\* Option<u16>
DeOptU16(j) ==
    IF j.t = "null" THEN [ok |-> TRUE, v |-> NoneNum]
    ELSE IF IsU16(j) THEN [ok |-> TRUE, v |-> [some |-> TRUE, val |-> Decimal(j.s, Len(j.s))]]
    ELSE [ok |-> FALSE, v |-> NoneNum]

\* Vec<String>
DeVecString(j) ==
    IF j.t = "arr" /\ \A i \in 1..Len(j.kids) : j.kids[i].t = "str"
    THEN [ok |-> TRUE, v |-> [i \in 1..Len(j.kids) |-> j.kids[i].s]]
    ELSE [ok |-> FALSE, v |-> <<>>]

\* The entries of a map read from the members of an object: one per key, the
\* last value given for a key, in the order the keys first appear.
MapEntries(kids) ==
    LET firsts == {i \in 1..Len(kids) : \A h \in 1..(i - 1) : kids[h].k # kids[i].k}
        last(i) == Max({h \in 1..Len(kids) : kids[h].k = kids[i].k})
        place(n) == Kth(firsts, n)
    IN  [n \in 1..Cardinality(firsts) |-> [k |-> kids[place(n)].k, v |-> kids[last(place(n))].v]]

\* Option<HashMap<String, serde_json::Value>>
DeOptMapValue(j) ==
    IF j.t = "null" THEN [ok |-> TRUE, v |-> NoneMap]
    ELSE IF j.t = "obj" THEN [ok |-> TRUE, v |-> [some |-> TRUE, val |-> MapEntries(j.kids)]]
    ELSE [ok |-> FALSE, v |-> NoneMap]

\* The entries of a map whose values are all strings.
StringEntries(entries) ==
    [n \in 1..Len(entries) |-> [k |-> entries[n].k, v |-> entries[n].v.s]]

\* Option<HashMap<String, String>>
DeOptMapString(j) ==
    IF j.t = "null" THEN [ok |-> TRUE, v |-> NoneMap]
    ELSE IF j.t = "obj" /\ \A i \in 1..Len(j.kids) : j.kids[i].v.t = "str"
    THEN [ok |-> TRUE, v |-> [some |-> TRUE, val |-> StringEntries(MapEntries(j.kids))]]
    ELSE [ok |-> FALSE, v |-> NoneMap]

\* What the input holds for each field of a struct, in declaration order.
Fields(j, names) == SubSeq([idx \in 1..Len(names) |-> Lookup(j, names, idx)], 1, Len(names))

\* A faulty Field, which gives every missing field its default.
FieldAlwaysDefault(look, read, hasDefault, default) ==
    IF look.st = "present" THEN read
    ELSE [ok |-> look.st = "missing", v |-> default]

\* A field's value: read if present, its default (or an error, for a field
\* without #[serde(default)]) if missing, an error if given twice.
Field(look, read, hasDefault, default) ==
    IF look.st = "present" THEN read
    ELSE IF look.st = "missing" /\ hasDefault THEN [ok |-> TRUE, v |-> default]
    ELSE [ok |-> FALSE, v |-> default]

AllOk(f) == \A i \in 1..Len(f) : f[i].ok

\* Faulty names, with credits read from the key "credits".
TaskStatusFieldsByName ==
    << "id", "job_id", "name", "operation", "status", "message", "code", "credits",
       "retry_of_task_id", "retries", "engine", "engine_version", "payload",
       "result", "links" >>

\* The serde names of task::Status's fields, in declaration order:
\* error_code and credits are both renamed to "code".
TaskStatusFields ==
    << "id", "job_id", "name", "operation", "status", "message", "code", "code",
       "retry_of_task_id", "retries", "engine", "engine_version", "payload",
       "result", "links" >>

NoTaskStatus ==
    [id |-> "", job_id |-> NoneStr, name |-> NoneStr, operation |-> "", status |-> "",
     status_message |-> NoneStr, error_code |-> NoneStr, credits |-> NoneNum,
     retry_of_task_id |-> NoneStr, retries |-> <<>>, engine |-> NoneStr,
     engine_version |-> NoneStr, payload |-> JNull, result |-> NoneMap, links |-> NoneMap]

\* The fields of task::Status, each read as its type, from what the input
\* holds for them.
TaskStatusRead(at) ==
    << Field(at[1], DeString(at[1].v), FALSE, ""),              \* id: String
       Field(at[2], DeOptString(at[2].v), TRUE, NoneStr),       \* job_id: Option<String>
       Field(at[3], DeOptString(at[3].v), TRUE, NoneStr),       \* name: Option<String>
       Field(at[4], DeString(at[4].v), FALSE, ""),              \* operation: String
       Field(at[5], DeStatus(at[5].v), FALSE, ""),              \* status: crate::Status
       Field(at[6], DeOptString(at[6].v), TRUE, NoneStr),       \* status_message
       Field(at[7], DeOptString(at[7].v), TRUE, NoneStr),       \* error_code
       Field(at[8], DeOptU16(at[8].v), TRUE, NoneNum),          \* credits: Option<u16>
       Field(at[9], DeOptString(at[9].v), TRUE, NoneStr),       \* retry_of_task_id
       Field(at[10], DeVecString(at[10].v), TRUE, <<>>),        \* retries: Vec<String>
       Field(at[11], DeOptString(at[11].v), TRUE, NoneStr),     \* engine
       Field(at[12], DeOptString(at[12].v), TRUE, NoneStr),     \* engine_version
       Field(at[13], [ok |-> TRUE, v |-> at[13].v], TRUE, JNull), \* payload: Value
       Field(at[14], DeOptMapValue(at[14].v), TRUE, NoneMap),   \* result
       Field(at[15], DeOptMapString(at[15].v), TRUE, NoneMap) >> \* links

\* The task::Status built from its fields, if the input has a struct's shape
\* and every field was read.
TaskStatusOf(shape, f) ==
    IF shape /\ AllOk(f)
    THEN [ok |-> TRUE,
          v |-> [id |-> f[1].v, job_id |-> f[2].v, name |-> f[3].v, operation |-> f[4].v,
                 status |-> f[5].v, status_message |-> f[6].v, error_code |-> f[7].v,
                 credits |-> f[8].v, retry_of_task_id |-> f[9].v, retries |-> f[10].v,
                 engine |-> f[11].v, engine_version |-> f[12].v, payload |-> f[13].v,
                 result |-> f[14].v, links |-> f[15].v]]
    ELSE [ok |-> FALSE, v |-> NoTaskStatus]

\* #[derive(Deserialize)] of task::Status
DeTaskStatus(j) ==
    TaskStatusOf(StructShape(j, TaskStatusFields), TaskStatusRead(Fields(j, TaskStatusFields)))

\* A faulty Vec, which holds the elements read last to first.
VecOfReversed(isArr, each) ==
    IF isArr /\ AllOk(each)
    THEN [ok |-> TRUE, v |-> [i \in 1..Len(each) |-> each[Len(each) + 1 - i].v]]
    ELSE [ok |-> FALSE, v |-> <<>>]

\* A Vec of the elements read, if the input is an array and each was read.
VecOf(isArr, each) ==
    IF isArr /\ AllOk(each)
    THEN [ok |-> TRUE, v |-> [i \in 1..Len(each) |-> each[i].v]]
    ELSE [ok |-> FALSE, v |-> <<>>]

\* Vec<task::Status>
DeVecTaskStatus(j) ==
    VecOf(j.t = "arr",
          SubSeq([i \in 1..Len(j.kids) |-> DeTaskStatus(j.kids[i])], 1, Len(j.kids)))

JobFields == << "id", "tag", "status", "tasks", "links" >>

NoJob == [id |-> "", tag |-> NoneStr, status |-> NoneStr, tasks |-> <<>>, links |-> NoneMap]

\* The fields of job::Job, each read as its type.
JobRead(at) ==
    << Field(at[1], DeString(at[1].v), FALSE, ""),              \* id: String
       Field(at[2], DeOptString(at[2].v), TRUE, NoneStr),       \* tag: Option<String>
       Field(at[3], DeOptStatus(at[3].v), TRUE, NoneStr),       \* status: Option<Status>
       Field(at[4], DeVecTaskStatus(at[4].v), TRUE, <<>>),      \* tasks: Vec<task::Status>
       Field(at[5], DeOptMapString(at[5].v), TRUE, NoneMap) >>  \* links

JobOf(shape, f) ==
    IF shape /\ AllOk(f)
    THEN [ok |-> TRUE,
          v |-> [id |-> f[1].v, tag |-> f[2].v, status |-> f[3].v, tasks |-> f[4].v,
                 links |-> f[5].v]]
    ELSE [ok |-> FALSE, v |-> NoJob]

\* #[derive(Deserialize)] of job::Job
DeJob(j) == JobOf(StructShape(j, JobFields), JobRead(Fields(j, JobFields)))

EventJsonFields == << "event", "job" >>

NoEventJson == [event |-> "", job |-> NoJob]

\* The fields of from_json's local struct EventJson, each read as its type.
EventJsonRead(at) ==
    << Field(at[1], DeEventKind(at[1].v), FALSE, ""),           \* event: EventKind
       Field(at[2], DeJob(at[2].v), FALSE, NoJob) >>            \* job: Job

EventJsonOf(shape, f) ==
    IF shape /\ AllOk(f)
    THEN [ok |-> TRUE, v |-> [event |-> f[1].v, job |-> f[2].v]]
    ELSE [ok |-> FALSE, v |-> NoEventJson]

\* #[derive(Deserialize)] of from_json's local struct EventJson
DeEventJson(j) ==
    EventJsonOf(StructShape(j, EventJsonFields), EventJsonRead(Fields(j, EventJsonFields)))

\* The EventJson of a document that was read; an error if it was not.
Typed(doc) == IF doc.ok THEN DeEventJson(doc.v) ELSE [ok |-> FALSE, v |-> NoEventJson]

\* serde_json::from_slice::<EventJson>(json)
from_slice(json) == Typed(ReadDocument(json))

(***************************************************************************)
(* The inputs of from_json the model draws from.                           *)
(***************************************************************************)

\* The signing secrets: the first n bytes of SecretBytes, n up to
\* MaxSecretLen.  <<>> is the empty secret, <<1>> and <<1, 2, 3, 9, 2>> are
\* the secrets of test_webhook_parsing_and_verification.
MaxSecretLen == 5
SecretBytes == <<1, 2, 3, 9, 2, 200, 255, 0>>
Secrets == {SubSeq(SecretBytes, 1, n) : n \in {0, 1, MaxSecretLen}}

\* The payload of test_webhook_parsing_and_verification (its line breaks
\* and indentation written as single spaces).
ExampleWebhook == "{ \"event\": \"job.finished\", \"job\": { \"id\": \"4b6ee8e2-e293-4805-b48e-a03876d1ec66\", \"tag\": \"myjob-123\", \"status\": null, \"created_at\": \"2019-04-13T21:18:47+00:00\", \"started_at\": null, \"ended_at\": null, \"tasks\": [ { \"id\": \"acdf8096-10a1-4ab7-b009-539f5f329cad\", \"name\": \"export-1\", \"operation\": \"export/url\", \"status\": \"finished\", \"message\": null, \"percent\": 100, \"result\": { \"files\": [ { \"filename\": \"file.pdf\", \"url\": \"https://storage.cloudconvert.com/eed87242-577e-4e3e-8178-9edbe51975dd/file.pdf?temp_url_sig=79c2db4d884926bbcc5476d01b4922a19137aee9&temp_url_expires=1545962104\" } ] }, \"created_at\": \"2019-04-13T21:18:47+00:00\", \"started_at\": \"2019-04-13T21:18:47+00:00\", \"ended_at\": \"2019-04-13T21:18:47+00:00\", \"depends_on_task_ids\": [ ], \"links\": { \"self\": \"https://api.cloudconvert.com/v2/tasks/acdf8096-10a1-4ab7-b009-539f5f329cad\" } } ], \"links\": { \"self\": \"https://api.cloudconvert.com/v2/jobs/4b6ee8e2-e293-4805-b48e-a03876d1ec66\" } } }"

\* Payloads that are events: objects with `event` and `job`, with and without
\* tasks, task job_ids, null and unknown keys, "code" and "credits"; and the
\* positional form, of the event and of a task.
EventPayloads ==
    { ExampleWebhook,
      "{\"event\":\"job.created\",\"job\":{\"id\":\"j1\"}}",
      "{\"event\":\"job.failed\",\"job\":{\"id\":\"j1\",\"tag\":null,\"status\":\"error\",\"tasks\":[]}}",
      "{\"event\":\"job.created\",\"job\":{\"id\":\"j1\",\"tag\":null,\"status\":null}}",
      "{\"event\":\"job.finished\",\"created_at\":\"2019\",\"job\":{\"id\":\"j1\",\"created_at\":\"2019\",\"started_at\":null,\"ended_at\":null,\"tasks\":[{\"id\":\"t1\",\"name\":\"import\",\"operation\":\"import/url\",\"status\":\"finished\",\"percent\":100,\"depends_on_task_ids\":[],\"credits\":1}],\"unknown\":{\"id\":7}}}",
      "{\"event\":\"job.finished\",\"job\":{\"id\":\"j1\",\"tasks\":[[\"t1\",null,\"export\",\"export/url\",\"finished\",null,\"E2\",5],{\"id\":\"t2\",\"operation\":\"convert\",\"status\":\"finished\",\"credits\":5}]}}",
      "{\"event\":\"job.finished\",\"job\":{\"id\":\"j1\",\"tasks\":[{\"id\":\"t1\",\"job_id\":\"j1\",\"operation\":\"convert\",\"status\":\"finished\"}]}}",
      "{\"event\":\"job.finished\",\"job\":{\"id\":\"j1\",\"tasks\":[{\"id\":\"t1\",\"name\":\"import\",\"operation\":\"import/url\",\"status\":\"finished\"},{\"id\":\"t2\",\"job_id\":\"j1\",\"name\":\"export\",\"operation\":\"export/url\",\"status\":\"waiting\"}]}}",
      "{\"event\":\"job.failed\",\"job\":{\"id\":\"j1\",\"tasks\":[{\"id\":\"t1\",\"job_id\":\"j2\",\"operation\":\"convert\",\"status\":\"error\",\"message\":\"failed\",\"code\":\"E1\",\"credits\":3}]}}",
      "{\"job\":{\"id\":\"j1\",\"started_at\":null},\"percent\":100,\"event\":{\"job.created\":null}}",
      "[\"job.failed\",{\"id\":\"j1\"}]" }

\* Payloads that are not: no JSON at all, JSON of another shape, a missing
\* `event` or `job`, an event name that is none of the three, a job without
\* id, a task without id, operation or status or with an unknown status,
\* a task with a number as "code".
OtherPayloads ==
    { "",
      "not json",
      "{\"event\":\"job.created\",\"job\":{\"id\":\"j1\"}",
      "{\"event\":\"job.created\",\"job\":{\"id\":\"j1\"}} x",
      "null",
      "{}",
      "{\"job\":{\"id\":\"j1\"}}",
      "{\"event\":\"job.created\"}",
      "{\"event\":\"Job.Created\",\"job\":{\"id\":\"j1\"}}",
      "{\"event\":\"job.cancelled\",\"job\":{\"id\":\"j1\"}}",
      "{\"event\":\"JobCreated\",\"job\":{\"id\":\"j1\"}}",
      "{\"event\":null,\"job\":{\"id\":\"j1\"}}",
      "{\"event\":\"job.created\",\"job\":{\"tag\":\"t\"}}",
      "{\"event\":\"job.created\",\"job\":{}}",
      "{\"event\":\"job.finished\",\"job\":{\"id\":\"j1\",\"tasks\":[{\"id\":\"t1\",\"operation\":\"convert\",\"status\":\"finished\",\"code\":3}]}}",
      "{\"event\":\"job.finished\",\"job\":{\"tag\":null,\"status\":\"finished\",\"tasks\":[],\"links\":{}}}",
      "{\"event\":\"job.created\",\"job\":{\"id\":\"j1\"},\"event\":\"job.created\"}",
      "{\"event\":\"job.finished\",\"job\":{\"id\":\"j1\",\"tasks\":[{\"id\":\"t1\",\"operation\":\"convert\"}]}}",
      "{\"event\":\"job.finished\",\"job\":{\"id\":\"j1\",\"tasks\":[{\"id\":\"t1\",\"operation\":\"convert\",\"status\":\"cancelled\"}]}}",
      "{\"event\":\"job.finished\",\"job\":{\"id\":\"j1\",\"tasks\":[{\"operation\":\"convert\",\"status\":\"finished\"}]}}",
      "{\"event\":\"job.finished\",\"job\":{\"id\":\"j1\",\"tasks\":[{\"id\":\"t1\",\"status\":\"finished\"}]}}",
      "{\"event\":\"job.finished\",\"job\":{\"id\":\"j1\",\"tasks\":[{\"id\":\"t1\",\"operation\":\"import/url\",\"status\":\"finished\"},{\"id\":\"t2\",\"operation\":\"convert\",\"status\":\"Finished\"}]}}" }

Payloads == EventPayloads \cup OtherPayloads

\* The tag of every secret and payload, and the parse of every payload, as
\* tables.
MacTable == [k \in Secrets, p \in Payloads |-> finalize(k, AsBytes(p))]
EventJsonTable == [p \in Payloads |-> from_slice(p)]

\* The JSON document of every payload, as a table.
DocumentTable == [p \in Payloads |-> ReadDocument(p)]

\* The text with its i-th character replaced by c.
Replace(s, i, c) == SubSeq(s, 1, i - 1) \o c \o SubSeq(s, i + 1, Len(s))

\* The upper-case form of a hex digit, and of a text of hex digits.
Upper(c) == IF Ord(c) \in 97..122 THEN CharAt(AsciiLow, Ord(c) - 32 - 31) ELSE c
UpperText(s) == Concat([i \in 1..Len(s) |-> Upper(CharAt(s, i))], 1, Len(s))

\* The signature the test passes for a mismatch (64 digits), and, cut to 62
\* digits, for a decoding failure.
TestSignature == "363495aa6b142fa06a3015aa7cb53fec870ebece9fa7cc35b99409685ba250da"

\* The signature strings tried against the tag `mac`: its hex encoding, in
\* lower and in upper case; that encoding with one character replaced, at
\* every place, by another hex digit, by the upper-case form, by a character
\* that is no hex digit; with one byte set to 0 and encoded again; cut,
\* lengthened, empty; and other well-formed signatures.
Signatures(mac) ==
    LET good == encode(mac)
    IN  {good, UpperText(good), TestSignature, encode([i \in 1..SigLen |-> 0])}
        \cup {Replace(good, i, c) : i \in 1..Len(good), c \in {"0", "f", "g"}}
        \cup {Replace(good, i, Upper(CharAt(good, i))) : i \in 1..Len(good)}
        \cup {encode([mac EXCEPT ![4] = 0])}
        \cup {"", "zz", SubSeq(good, 1, Len(good) - 1), SubSeq(good, 1, Len(good) - 2),
              good \o "0", good \o "00", SubSeq(TestSignature, 1, 62)}

(***************************************************************************)
(* Event::from_json, one step of the function after the other.             *)
(***************************************************************************)

VARIABLES
    json,               \* the payload, `json: &[u8]`
    signature,          \* the CloudConvert-Signature header, `signature: &str`
    signing_secret,     \* `signing_secret: &[u8]`
    pc,                 \* where the call is: "idle", "decode", "hmac", "compare", "parse", "done"
    expected_signature, \* the buffer the header is decoded into
    actual_signature,   \* the computed tag; <<>> until it is computed
    event,              \* the EventJson read from the payload; <<>> until it is read
    result,             \* what the call returned
    compared,           \* the bytes the comparison of the two buffers looked at
    held,               \* the Event client code owns; <<>> while it owns none
    calls,              \* the call of from_json each thread is in
    response,           \* the body of the API's answer to a jobs request; "" if none
    output,             \* the JobsOutput read from it; <<>> until it is read
    job,                \* the Job made of it; <<>> until it is made
    api_result,         \* how the request ended: "none", "Ok", "Json", "panic"
    text,               \* the string a Format is made from; <<>> if from none
    format,             \* the Format; <<>> while there is none
    serialized,         \* serde_json::to_string of the Format; "" until it is made
    options,            \* the ImportConvertExport given; <<>> if none
    call,               \* the job::Create; <<>> while there is none
    request,            \* the CreateJobRequest made of it; <<>> until it is made
    this,               \* the Job get_task_by_name is called on, `&self`; <<>> if none
    by_name,            \* the name asked for, `name: &str`
    iter,               \* the place self.tasks.iter() has come to
    found,              \* the task returned, as its place in self.tasks; <<>> for None
    get_pc              \* where the call is: "idle", "find", "done"

\* The state of a call of from_json, and the state beyond it.
from_json_vars == <<json, signature, signing_secret, pc, expected_signature,
                    actual_signature, event, result, compared>>
client_vars == <<held>>
thread_vars == <<calls>>
api_vars == <<response, output, job, api_result>>
format_vars == <<text, format, serialized>>
create_vars == <<options, call, request>>
get_vars == <<this, by_name, iter, found, get_pc>>
beyond_from_json == <<client_vars, thread_vars, api_vars, format_vars, create_vars, get_vars>>
beyond_client == <<thread_vars, api_vars, format_vars, create_vars, get_vars>>
beyond_threads == <<from_json_vars, client_vars, api_vars, format_vars, create_vars, get_vars>>
beyond_api == <<from_json_vars, client_vars, thread_vars, format_vars, create_vars, get_vars>>
beyond_format == <<from_json_vars, client_vars, thread_vars, api_vars, create_vars, get_vars>>
beyond_create == <<from_json_vars, client_vars, thread_vars, api_vars, format_vars, get_vars>>
beyond_get == <<from_json_vars, client_vars, thread_vars, api_vars, format_vars, create_vars>>

vars == <<from_json_vars, beyond_from_json>>

\* The threads that call from_json.
MaxThreads == 2
Threads == 1..MaxThreads

NoResult == [kind |-> "none", cause |-> "", event |-> <<>>]
Err(variant, why) == [kind |-> variant, cause |-> why, event |-> <<>>]
Ok(ev) == [kind |-> "Ok", cause |-> "", event |-> <<ev>>]

\* No call of from_json is under way.
NoCall ==
    /\ json = ""
    /\ signature = ""
    /\ signing_secret = <<>>
    /\ pc = "idle"
    /\ expected_signature = <<>>
    /\ actual_signature = <<>>
    /\ event = <<>>
    /\ result = NoResult
    /\ compared = 0

\* Nothing beyond from_json has happened.
\* A thread outside from_json, and one that has just called it.
Idle ==
    [json |-> "", signature |-> "", signing_secret |-> <<>>, pc |-> "idle",
     expected_signature |-> <<>>, actual_signature |-> <<>>, event |-> <<>>,
     result |-> NoResult]
Start(p, s, k) ==
    [json |-> p, signature |-> s, signing_secret |-> k, pc |-> "decode",
     expected_signature |-> <<>>, actual_signature |-> <<>>, event |-> <<>>,
     result |-> NoResult]

\* Nothing beyond from_json has happened.
NothingBeyond ==
    /\ held = <<>>
    /\ calls = [t \in Threads |-> Idle]
    /\ response = ""
    /\ output = <<>>
    /\ job = <<>>
    /\ api_result = "none"
    /\ text = <<>>
    /\ format = <<>>
    /\ serialized = ""
    /\ options = <<>>
    /\ call = <<>>
    /\ request = <<>>
    /\ this = <<>>
    /\ by_name = ""
    /\ iter = 0
    /\ found = <<>>
    /\ get_pc = "idle"

Init == NoCall /\ NothingBeyond

\* Event::signature(&self): the signature the event carries.
Event_signature(ev) == ev.signature

\* `?` on the Result of from_slice: the EventJson, or nothing on an error.
Parsed(r) == IF r.ok THEN <<r.v>> ELSE <<>>

\* What from_json returns once the payload has been read.
Returned(ev, tag) ==
    IF ev = <<>> THEN Err("Json", "")
    ELSE Ok([event |-> ev[1].event, job |-> ev[1].job, signature |-> tag])

\* A call Event::from_json(p, s, k).
Call(p, s, k) ==
    /\ json' = p
    /\ signature' = s
    /\ signing_secret' = k
    /\ pc' = "decode"
    /\ UNCHANGED <<expected_signature, actual_signature, event, result, compared>>
    /\ UNCHANGED beyond_from_json

\* A faulty Decode, which goes on to the HMAC whatever the decoding said.
DecodeUnchecked ==
    /\ pc = "decode"
    /\ expected_signature' = decode_to_slice(signature, [i \in 1..SigLen |-> 0]).out
    /\ pc' = "hmac"
    /\ UNCHANGED <<json, signature, signing_secret, actual_signature, event, result,
                   compared>>
    /\ UNCHANGED beyond_from_json

\* let mut expected_signature = [0; 32];
\* hex::decode_to_slice(signature, &mut expected_signature[..])
\*     .map_err(ParseError::HexDecodeSignature)?;
Decode ==
    /\ pc = "decode"
    /\ LET r == decode_to_slice(signature, [i \in 1..SigLen |-> 0])
       IN  /\ expected_signature' = r.out
           /\ IF r.ok
              THEN pc' = "hmac" /\ UNCHANGED result
              ELSE pc' = "done" /\ result' = Err("HexDecodeSignature", r.cause)
    /\ UNCHANGED <<json, signature, signing_secret, actual_signature, event, compared>>
    /\ UNCHANGED beyond_from_json

\* let mut mac = Hmac::<sha2::Sha256>::new_from_slice(signing_secret).unwrap();
\* mac.update(json);
\* let actual_signature: [u8; 32] = mac.finalize().into_bytes().into();
ComputeHmac ==
    /\ pc = "hmac"
    /\ LET mac == new_from_slice(signing_secret)
       IN  IF mac.ok
           THEN /\ actual_signature' = MacTable[mac.key, json]
                /\ pc' = "compare"
                /\ UNCHANGED result
           ELSE /\ pc' = "done"
                /\ result' = [kind |-> "panic", cause |-> "unwrap", event |-> <<>>]
                /\ UNCHANGED actual_signature
    /\ UNCHANGED <<json, signature, signing_secret, expected_signature, event, compared>>
    /\ UNCHANGED beyond_from_json

\* A faulty Compare, which compares the first half of the two buffers only.
ComparePrefix ==
    /\ pc = "compare"
    /\ IF SubSeq(actual_signature, 1, SigLen \div 2)
              # SubSeq(expected_signature, 1, SigLen \div 2)
       THEN pc' = "done" /\ result' = Err("SignatureMismatch", "")
       ELSE pc' = "parse" /\ UNCHANGED result
    /\ compared' = SigLen \div 2
    /\ UNCHANGED <<json, signature, signing_secret, expected_signature, actual_signature,
                   event>>
    /\ UNCHANGED beyond_from_json

\* A faulty Compare, which lets every signature through.
CompareSkipped ==
    /\ pc = "compare"
    /\ pc' = "parse"
    /\ compared' = SigLen
    /\ UNCHANGED <<json, signature, signing_secret, expected_signature, actual_signature,
                   event, result>>
    /\ UNCHANGED beyond_from_json

\* The first place where two buffers of one length differ; their length if
\* they are equal.
FirstDifference(a, b) ==
    IF a = b THEN Len(a) ELSE CHOOSE i \in 1..Len(a) : a[i] # b[i] /\ SubSeq(a, 1, i - 1) = SubSeq(b, 1, i - 1)

\* The number of bytes `!=` on two [u8; 32] may look at.  The language says
\* what the operator answers, not how: a build may compare the buffers as a
\* whole, or byte after byte up to the first difference.
BytesCompared(a, b) == {Len(a), FirstDifference(a, b)}

\* A faulty Compare, which compares the header as text with the lower-case
\* hex encoding of the computed tag.
CompareAsText ==
    /\ pc = "compare"
    /\ IF encode(actual_signature) # signature
       THEN pc' = "done" /\ result' = Err("SignatureMismatch", "")
       ELSE pc' = "parse" /\ UNCHANGED result
    /\ compared' = SigLen
    /\ UNCHANGED <<json, signature, signing_secret, expected_signature, actual_signature,
                   event>>
    /\ UNCHANGED beyond_from_json

\* if actual_signature != expected_signature {
\*     return Err(ParseError::SignatureMismatch);
\* }
Compare ==
    /\ pc = "compare"
    /\ IF actual_signature # expected_signature
       THEN pc' = "done" /\ result' = Err("SignatureMismatch", "")
       ELSE pc' = "parse" /\ UNCHANGED result
    /\ compared' \in BytesCompared(actual_signature, expected_signature)
    /\ UNCHANGED <<json, signature, signing_secret, expected_signature, actual_signature,
                   event>>
    /\ UNCHANGED beyond_from_json

\* let event: EventJson = serde_json::from_slice(json).map_err(ParseError::Json)?;
\* Ok(Event { event: event.event, job: event.job, signature: actual_signature })
Deserialize ==
    /\ pc = "parse"
    /\ event' = Parsed(EventJsonTable[json])
    /\ result' = Returned(event', actual_signature)
    /\ pc' = "done"
    /\ UNCHANGED <<json, signature, signing_secret, expected_signature, actual_signature,
                   compared>>
    /\ UNCHANGED beyond_from_json

\* The call has returned; its locals are gone, the next call may come.
Return ==
    /\ pc = "done"
    /\ json' = ""
    /\ signature' = ""
    /\ signing_secret' = <<>>
    /\ pc' = "idle"
    /\ expected_signature' = <<>>
    /\ actual_signature' = <<>>
    /\ event' = <<>>
    /\ result' = NoResult
    /\ compared' = 0
    /\ UNCHANGED beyond_from_json

\* Any call, with a payload, a secret and a signature string of the model's.
Request ==
    /\ pc = "idle"
    /\ \E k \in Secrets, p \in Payloads :
           \E s \in Signatures(MacTable[k, p]) : Call(p, s, k)

Next ==
    \/ Request
    \/ Decode
    \/ ComputeHmac
    \/ Compare
    \/ Deserialize
    \/ Return

Spec == Init /\ [][Next]_vars

(***************************************************************************)
(* Client code that owns an Event.  The fields `event` and `job` are pub,  *)
(* the field `signature` is private and read through signature() only.     *)
(***************************************************************************)

\* The signing secret of the endpoint the client code serves.
ClientSecret == SubSeq(SecretBytes, 1, MaxSecretLen)

\* The payloads that reach the client code.
ClientPayloads ==
    { "{\"event\":\"job.created\",\"job\":{\"id\":\"j1\"}}",
      "{\"event\":\"job.failed\",\"job\":{\"id\":\"j1\",\"tag\":null,\"status\":\"error\",\"tasks\":[]}}",
      "{\"event\":\"job.finished\",\"job\":{\"id\":\"j1\",\"tasks\":[{\"id\":\"t1\",\"job_id\":\"j1\",\"operation\":\"convert\",\"status\":\"finished\"}]}}",
      "[\"job.failed\",{\"id\":\"j1\"}]",
      "not json",
      "{\"event\":\"job.created\"}" }

\* The three variants of EventKind.
EventKinds == {EventKindVariants[i].variant : i \in 1..Len(EventKindVariants)}

\* Jobs the client code writes down itself: every field of Job is pub.
ClientJobs ==
    {[id |-> i, tag |-> t, status |-> NoneStr, tasks |-> <<>>,
      links |-> NoneMap] : i \in {"j1", "forged"}, t \in {NoneStr, SomeStr("paid")}}

\* The webhook endpoint receives a request; the header carries the signature
\* of the payload or another one.
ClientRequest ==
    /\ pc = "idle"
    /\ \E p \in ClientPayloads :
           \E s \in {encode(MacTable[ClientSecret, p]), TestSignature} :
               Call(p, s, ClientSecret)

\* let mut event = Event::from_json(json, signature, secret).unwrap();
Bind ==
    /\ pc = "done"
    /\ result.kind = "Ok"
    /\ held' = result.event
    /\ UNCHANGED from_json_vars
    /\ UNCHANGED beyond_client

\* event.event = kind;
AssignEvent ==
    /\ held # <<>>
    /\ \E kind \in EventKinds : held' = <<[held[1] EXCEPT !.event = kind]>>
    /\ UNCHANGED from_json_vars
    /\ UNCHANGED beyond_client

\* An assignment that could write the private field as well, as a struct
\* expression outside the module would if `signature` were pub.
AssignAll ==
    /\ held # <<>>
    /\ \E other \in ClientJobs :
           held' = <<[event |-> held[1].event, job |-> other,
                      signature |-> [i \in 1..SigLen |-> 0]]>>
    /\ UNCHANGED from_json_vars
    /\ UNCHANGED beyond_client

\* event.job = other;
AssignJob ==
    /\ held # <<>>
    /\ \E other \in ClientJobs : held' = <<[held[1] EXCEPT !.job = other]>>
    /\ UNCHANGED from_json_vars
    /\ UNCHANGED beyond_client

ClientNext ==
    \/ ClientRequest
    \/ Decode
    \/ ComputeHmac
    \/ Compare
    \/ Deserialize
    \/ Return
    \/ Bind
    \/ AssignEvent
    \/ AssignJob

ClientSpec == Init /\ [][ClientNext]_vars

(***************************************************************************)
(* Calls of from_json on several threads.  The function has no static and  *)
(* no shared state: a call works on its parameters and its locals, which   *)
(* are the thread's own.                                                   *)
(***************************************************************************)

\* The calls the threads make.
ThreadPayloads == {"{\"event\":\"job.created\",\"job\":{\"id\":\"j1\"}}", "not json"}
ThreadSecrets == {<<>>, ClientSecret}
ThreadSignatures(mac) == {encode(mac), TestSignature, "zz"}

\* The call after hex::decode_to_slice gave r.
AfterDecode(c, r) ==
    [c EXCEPT !.expected_signature = r.out,
              !.pc = IF r.ok THEN "hmac" ELSE "done",
              !.result = IF r.ok THEN c.result ELSE Err("HexDecodeSignature", r.cause)]

\* The call after Hmac::new_from_slice gave mac.
AfterHmac(c, mac) ==
    IF mac.ok
    THEN [c EXCEPT !.actual_signature = MacTable[mac.key, c.json], !.pc = "compare"]
    ELSE [c EXCEPT !.pc = "done",
                   !.result = [kind |-> "panic", cause |-> "unwrap", event |-> <<>>]]

\* The call after the comparison of the two buffers.
AfterCompare(c) ==
    IF c.actual_signature # c.expected_signature
    THEN [c EXCEPT !.pc = "done", !.result = Err("SignatureMismatch", "")]
    ELSE [c EXCEPT !.pc = "parse"]

\* The call after serde_json::from_slice gave ev.
AfterParse(c, ev) ==
    [c EXCEPT !.event = ev, !.result = Returned(ev, c.actual_signature), !.pc = "done"]

\* One step of a call: Decode, ComputeHmac, Compare, Deserialize or Return,
\* on the parameters and locals of this call.
Step(c) ==
    CASE c.pc = "decode" ->
             AfterDecode(c, decode_to_slice(c.signature, [i \in 1..SigLen |-> 0]))
      [] c.pc = "hmac" -> AfterHmac(c, new_from_slice(c.signing_secret))
      [] c.pc = "compare" -> AfterCompare(c)
      [] c.pc = "parse" -> AfterParse(c, Parsed(EventJsonTable[c.json]))
      [] OTHER -> Idle

\* A thread calls Event::from_json(p, s, k).
ThreadCall(t) ==
    /\ calls[t].pc = "idle"
    /\ \E k \in ThreadSecrets, p \in ThreadPayloads :
           \E s \in ThreadSignatures(MacTable[k, p]) :
               calls' = [calls EXCEPT ![t] = Start(p, s, k)]
    /\ UNCHANGED beyond_threads

\* A faulty step, of a from_json that decodes into one buffer shared by all
\* threads: the thread compares with what another thread has decoded.
ThreadStepSharedBuffer(t) ==
    /\ calls[t].pc # "idle"
    /\ \E u \in Threads :
           calls' = [calls EXCEPT ![t] =
                        Step([calls[t] EXCEPT !.expected_signature =
                                 IF calls[t].pc = "compare" /\ calls[u].pc = "compare"
                                 THEN calls[u].expected_signature ELSE @])]
    /\ UNCHANGED beyond_threads

\* A thread goes one step on in its call.
ThreadStep(t) ==
    /\ calls[t].pc # "idle"
    /\ calls' = [calls EXCEPT ![t] = Step(calls[t])]
    /\ UNCHANGED beyond_threads

ThreadNext == \E t \in Threads : ThreadCall(t) \/ ThreadStep(t)

ThreadSpec == Init /\ [][ThreadNext]_vars

(***************************************************************************)
(* The answer of the API to a jobs request: the body is read as a          *)
(* JobsOutput, which is converted into the Job the caller gets.            *)
(***************************************************************************)

\* The longest task list of an answer.
MaxTasks == 2

\* The job ids of the answers; "" stands for a task that gives no job_id.
JobIds == {"j1", "j2"}
TaskJobIds == {""} \cup JobIds

\* The text of the n-th task of an answer, with the job_id given.
TaskText(n, jid) ==
    "{\"id\":\"t" \o CharAt("0123456789", n + 1) \o "\","
        \o (IF jid = "" THEN "" ELSE "\"job_id\":\"" \o jid \o "\",")
        \o "\"name\":\"export\",\"operation\":\"export/url\",\"status\":\"finished\","
        \o "\"result\":{\"files\":[{\"filename\":\"file.pdf\"}]}}"

\* The text of the task list with the job_ids given.
TasksText(jids) ==
    "[" \o Concat([n \in 1..Len(jids) |-> (IF n > 1 THEN "," ELSE "") \o TaskText(n, jids[n])],
                   1, Len(jids)) \o "]"

\* The text of an answer.
ResponseText(id, tag, jids) ==
    "{\"data\":{\"id\":\"" \o id \o "\"," \o tag \o "\"tasks\":" \o TasksText(jids) \o "}}"

\* The task lists of the answers: with each task, whether and which job_id
\* it gives.
TaskLists == UNION {[1..n -> TaskJobIds] : n \in 0..MaxTasks}

\* The answers: jobs with up to MaxTasks tasks, with and without tag, and
\* bodies that are no JobsOutput.
ResponseBodies ==
    {ResponseText(id, tag, jids) :
        id \in JobIds, tag \in {"", "\"tag\":\"myjob-123\","}, jids \in TaskLists}
    \cup {"not json", "{}", "{\"data\":{\"tag\":\"myjob-123\"}}"}

JobsOutputFields == << "data" >>

\* The field of job::JobsOutput, read as its type.
JobsOutputRead(at) == << Field(at[1], DeJob(at[1].v), FALSE, NoJob) >>       \* data: Job

JobsOutputOf(shape, f) ==
    IF shape /\ AllOk(f) THEN [ok |-> TRUE, v |-> [data |-> f[1].v]]
    ELSE [ok |-> FALSE, v |-> [data |-> NoJob]]

\* #[derive(Deserialize)] of job::JobsOutput
DeJobsOutput(j) ==
    JobsOutputOf(StructShape(j, JobsOutputFields), JobsOutputRead(Fields(j, JobsOutputFields)))

\* The JobsOutput of a document that was read; an error if it was not.
TypedOutput(doc) == IF doc.ok THEN DeJobsOutput(doc.v) ELSE [ok |-> FALSE, v |-> [data |-> NoJob]]

\* A faulty conversion, which hands the job on as it was read.
Job_from_as_read(o) == [kind |-> "Ok", job |-> <<o.data>>]

\* for task in job.tasks.iter_mut() { ... }, from the i-th task on: a task
\* with a job_id passes assert_eq! or panics, one without gets the job's id.
RECURSIVE FillFrom(_, _)
FillFrom(j, i) ==
    IF i > Len(j.tasks) THEN [kind |-> "Ok", job |-> <<j>>]
    ELSE IF j.tasks[i].job_id.some
         THEN IF j.tasks[i].job_id.val = j.id THEN FillFrom(j, i + 1)
              ELSE [kind |-> "panic", job |-> <<>>]
         ELSE FillFrom([j EXCEPT !.tasks[i].job_id = SomeStr(j.id)], i + 1)

\* impl From<JobsOutput> for Job: fn from(output: JobsOutput) -> Job
Job_from(o) == FillFrom(o.data, 1)

\* The API answers a jobs request.
Respond ==
    /\ response = ""
    /\ response' \in ResponseBodies
    /\ UNCHANGED <<output, job, api_result>>
    /\ UNCHANGED beyond_api

\* The body is read as a JobsOutput; a body that is none ends the request
\* with an error.
ReadOutput ==
    /\ response # ""
    /\ output = <<>>
    /\ api_result = "none"
    /\ output' = Parsed(TypedOutput(ReadDocument(response)))
    /\ api_result' = IF output' = <<>> THEN "Json" ELSE "none"
    /\ UNCHANGED <<response, job>>
    /\ UNCHANGED beyond_api

\* `JobsOutput as Job`: the output is converted by Job::from.
Convert ==
    /\ output # <<>>
    /\ api_result = "none"
    /\ job' = Job_from(output[1]).job
    /\ api_result' = Job_from(output[1]).kind
    /\ UNCHANGED <<response, output>>
    /\ UNCHANGED beyond_api

\* The request has ended; the next one may come.
ApiReturn ==
    /\ api_result # "none"
    /\ response' = ""
    /\ output' = <<>>
    /\ job' = <<>>
    /\ api_result' = "none"
    /\ UNCHANGED beyond_api

ApiNext ==
    \/ Respond
    \/ ReadOutput
    \/ Convert
    \/ ApiReturn

ApiSpec == Init /\ [][ApiNext]_vars

(***************************************************************************)
(* Format: the enum format_enum! makes, its strings, and its Serialize.    *)
(***************************************************************************)

\* The variants format_enum! is given, `$Variant = $str`, in their order.
FormatTable ==
    << [variant |-> "SevenZ", str |-> "7z"], [variant |-> "Ace", str |-> "ace"],
       [variant |-> "Alz", str |-> "alz"], [variant |-> "Arc", str |-> "arc"],
       [variant |-> "Arj", str |-> "arj"], [variant |-> "Bz", str |-> "bz"],
       [variant |-> "Bz2", str |-> "bz2"], [variant |-> "Cab", str |-> "cab"],
       [variant |-> "Cpio", str |-> "cpio"], [variant |-> "Deb", str |-> "deb"],
       [variant |-> "Dmg", str |-> "dmg"], [variant |-> "Gz", str |-> "gz"],
       [variant |-> "Img", str |-> "img"], [variant |-> "Iso", str |-> "iso"],
       [variant |-> "Jar", str |-> "jar"], [variant |-> "Lha", str |-> "lha"],
       [variant |-> "Lz", str |-> "lz"], [variant |-> "Lzma", str |-> "lzma"],
       [variant |-> "Lzo", str |-> "lzo"], [variant |-> "Rar", str |-> "rar"],
       [variant |-> "Rpm", str |-> "rpm"], [variant |-> "Rz", str |-> "rz"],
       [variant |-> "Tar", str |-> "tar"], [variant |-> "Tar7z", str |-> "tar.7z"],
       [variant |-> "TarBz", str |-> "tar.bz"], [variant |-> "TarBz2", str |-> "tar.bz2"],
       [variant |-> "TarGz", str |-> "tar.gz"], [variant |-> "TarLzo", str |-> "tar.lzo"],
       [variant |-> "TarXz", str |-> "tar.xz"], [variant |-> "TarZ", str |-> "tar.z"],
       [variant |-> "Tbz", str |-> "tbz"], [variant |-> "Tbz2", str |-> "tbz2"],
       [variant |-> "Tgz", str |-> "tgz"], [variant |-> "Tz", str |-> "tz"],
       [variant |-> "Tzo", str |-> "tzo"], [variant |-> "Xz", str |-> "xz"],
       [variant |-> "Z", str |-> "z"], [variant |-> "Zip", str |-> "zip"],
       [variant |-> "Aac", str |-> "aac"], [variant |-> "Ac3", str |-> "ac3"],
       [variant |-> "Aif", str |-> "aif"], [variant |-> "Aifc", str |-> "aifc"],
       [variant |-> "Aiff", str |-> "aiff"], [variant |-> "Amr", str |-> "amr"],
       [variant |-> "Au", str |-> "au"], [variant |-> "Avi", str |-> "avi"],
       [variant |-> "Caf", str |-> "caf"], [variant |-> "Cavs", str |-> "cavs"],
       [variant |-> "Dv", str |-> "dv"], [variant |-> "Dvr", str |-> "dvr"],
       [variant |-> "Flac", str |-> "flac"], [variant |-> "Flv", str |-> "flv"],
       [variant |-> "Gif", str |-> "gif"], [variant |-> "M2ts", str |-> "m2ts"],
       [variant |-> "M4a", str |-> "m4a"], [variant |-> "M4b", str |-> "m4b"],
       [variant |-> "M4v", str |-> "m4v"], [variant |-> "Mkv", str |-> "mkv"],
       [variant |-> "Mod", str |-> "mod"], [variant |-> "Mov", str |-> "mov"],
       [variant |-> "Mp3", str |-> "mp3"], [variant |-> "Mp4", str |-> "mp4"],
       [variant |-> "Mpeg", str |-> "mpeg"], [variant |-> "Mpg", str |-> "mpg"],
       [variant |-> "Mts", str |-> "mts"], [variant |-> "Mxf", str |-> "mxf"],
       [variant |-> "Oga", str |-> "oga"], [variant |-> "Ogg", str |-> "ogg"],
       [variant |-> "Rm", str |-> "rm"], [variant |-> "Rmvb", str |-> "rmvb"],
       [variant |-> "Swf", str |-> "swf"], [variant |-> "Ts", str |-> "ts"],
       [variant |-> "Vob", str |-> "vob"], [variant |-> "Voc", str |-> "voc"],
       [variant |-> "Wav", str |-> "wav"], [variant |-> "Weba", str |-> "weba"],
       [variant |-> "Webm", str |-> "webm"], [variant |-> "Wma", str |-> "wma"],
       [variant |-> "Wmv", str |-> "wmv"], [variant |-> "Wtv", str |-> "wtv"],
       [variant |-> "Ai", str |-> "ai"], [variant |-> "Cdr", str |-> "cdr"],
       [variant |-> "Cgm", str |-> "cgm"], [variant |-> "Dwg", str |-> "dwg"],
       [variant |-> "Dxf", str |-> "dxf"], [variant |-> "Emf", str |-> "emf"],
       [variant |-> "Eps", str |-> "eps"], [variant |-> "Pdf", str |-> "pdf"],
       [variant |-> "Ps", str |-> "ps"], [variant |-> "Sk", str |-> "sk"],
       [variant |-> "Sk1", str |-> "sk1"], [variant |-> "Svg", str |-> "svg"],
       [variant |-> "Svgz", str |-> "svgz"], [variant |-> "Vsd", str |-> "vsd"],
       [variant |-> "Wmf", str |-> "wmf"], [variant |-> "Abw", str |-> "abw"],
       [variant |-> "Arw", str |-> "arw"], [variant |-> "Avif", str |-> "avif"],
       [variant |-> "Azw", str |-> "azw"], [variant |-> "Azw3", str |-> "azw3"],
       [variant |-> "Azw4", str |-> "azw4"], [variant |-> "Bmp", str |-> "bmp"],
       [variant |-> "Cbc", str |-> "cbc"], [variant |-> "Cbr", str |-> "cbr"],
       [variant |-> "Cbz", str |-> "cbz"], [variant |-> "Chm", str |-> "chm"],
       [variant |-> "Cr2", str |-> "cr2"], [variant |-> "Cr3", str |-> "cr3"],
       [variant |-> "Crw", str |-> "crw"], [variant |-> "Csv", str |-> "csv"],
       [variant |-> "Dcr", str |-> "dcr"], [variant |-> "Djvu", str |-> "djvu"],
       [variant |-> "Dng", str |-> "dng"], [variant |-> "Doc", str |-> "doc"],
       [variant |-> "Docm", str |-> "docm"], [variant |-> "Docx", str |-> "docx"],
       [variant |-> "Dot", str |-> "dot"], [variant |-> "Dotx", str |-> "dotx"],
       [variant |-> "Dps", str |-> "dps"], [variant |-> "Epub", str |-> "epub"],
       [variant |-> "Erf", str |-> "erf"], [variant |-> "Et", str |-> "et"],
       [variant |-> "Fb2", str |-> "fb2"], [variant |-> "Heic", str |-> "heic"],
       [variant |-> "Heif", str |-> "heif"], [variant |-> "Htm", str |-> "htm"],
       [variant |-> "Html", str |-> "html"], [variant |-> "Htmlz", str |-> "htmlz"],
       [variant |-> "Hwp", str |-> "hwp"], [variant |-> "Ico", str |-> "ico"],
       [variant |-> "Jfif", str |-> "jfif"], [variant |-> "Jpeg", str |-> "jpeg"],
       [variant |-> "Jpg", str |-> "jpg"], [variant |-> "Key", str |-> "key"],
       [variant |-> "Lit", str |-> "lit"], [variant |-> "Lrf", str |-> "lrf"],
       [variant |-> "Lwp", str |-> "lwp"], [variant |-> "Md", str |-> "md"],
       [variant |-> "Mobi", str |-> "mobi"], [variant |-> "Mos", str |-> "mos"],
       [variant |-> "Mrw", str |-> "mrw"], [variant |-> "Nef", str |-> "nef"],
       [variant |-> "Numbers", str |-> "numbers"], [variant |-> "Odd", str |-> "odd"],
       [variant |-> "Odg", str |-> "odg"], [variant |-> "Odp", str |-> "odp"],
       [variant |-> "Ods", str |-> "ods"], [variant |-> "Odt", str |-> "odt"],
       [variant |-> "Orf", str |-> "orf"], [variant |-> "Pages", str |-> "pages"],
       [variant |-> "Pdb", str |-> "pdb"], [variant |-> "Pef", str |-> "pef"],
       [variant |-> "Pml", str |-> "pml"], [variant |-> "Png", str |-> "png"],
       [variant |-> "Pot", str |-> "pot"], [variant |-> "Potx", str |-> "potx"],
       [variant |-> "Ppm", str |-> "ppm"], [variant |-> "Pps", str |-> "pps"],
       [variant |-> "Ppsx", str |-> "ppsx"], [variant |-> "Ppt", str |-> "ppt"],
       [variant |-> "Pptm", str |-> "pptm"], [variant |-> "Pptx", str |-> "pptx"],
       [variant |-> "Prc", str |-> "prc"], [variant |-> "Psd", str |-> "psd"],
       [variant |-> "Raf", str |-> "raf"], [variant |-> "Raw", str |-> "raw"],
       [variant |-> "Rb", str |-> "rb"], [variant |-> "Rst", str |-> "rst"],
       [variant |-> "Rtf", str |-> "rtf"], [variant |-> "Rw2", str |-> "rw2"],
       [variant |-> "Snb", str |-> "snb"], [variant |-> "Tcr", str |-> "tcr"],
       [variant |-> "Tex", str |-> "tex"], [variant |-> "Tif", str |-> "tif"],
       [variant |-> "Tiff", str |-> "tiff"], [variant |-> "Txt", str |-> "txt"],
       [variant |-> "Txtz", str |-> "txtz"], [variant |-> "Webp", str |-> "webp"],
       [variant |-> "Wpd", str |-> "wpd"], [variant |-> "Wps", str |-> "wps"],
       [variant |-> "X3f", str |-> "x3f"], [variant |-> "Xcf", str |-> "xcf"],
       [variant |-> "Xls", str |-> "xls"], [variant |-> "Xlsm", str |-> "xlsm"],
       [variant |-> "Xlsx", str |-> "xlsx"], [variant |-> "Xps", str |-> "xps"],
       [variant |-> "Zabw", str |-> "zabw"], [variant |-> "Eot", str |-> "eot"],
       [variant |-> "Otf", str |-> "otf"], [variant |-> "Ttf", str |-> "ttf"],
       [variant |-> "Woff", str |-> "woff"], [variant |-> "Woff2", str |-> "woff2"],
       [variant |-> "Icns", str |-> "icns"] >>

\* Format::Custom(s)
Custom(s) == [variant |-> "Custom", custom |-> s]

\* A variant without data, such as Format::Pdf.
Named(variant) == [variant |-> variant, custom |-> ""]

\* The rows of the table with the variant, and those with the string.
RowsOfVariant(variant) == {i \in 1..Len(FormatTable) : FormatTable[i].variant = variant}
RowsOfStr(s) == {i \in 1..Len(FormatTable) : FormatTable[i].str = s}

\* A faulty str, which gives the name of the variant as the source spells it.
Format_str_as_spelt(f) == IF f.variant = "Custom" THEN f.custom ELSE f.variant

\* pub fn str(&self) -> &str: the first arm of the match that fits.
Format_str(f) ==
    IF f.variant = "Custom" THEN f.custom ELSE FormatTable[Min(RowsOfVariant(f.variant))].str

\* impl From<Cow<'static, str>> for Format: the first arm whose string is s,
\* Custom(s) if there is none.
Format_from(s) ==
    IF RowsOfStr(s) = {} THEN Custom(s) ELSE Named(FormatTable[Min(RowsOfStr(s))].variant)

\* The text of a JSON string: the characters between quotes, a quote and a
\* backslash each behind a backslash.  (The strings of the model hold no
\* control characters.)
Quoted(s) ==
    "\"" \o Concat([i \in 1..Len(s) |->
                       IF CharAt(s, i) \in {"\"", "\\"} THEN "\\" \o CharAt(s, i)
                       ELSE CharAt(s, i)], 1, Len(s)) \o "\""

\* impl serde::Serialize for Format, into serde_json::to_string:
\* serializer.serialize_str(self.str())
Format_to_string(f) == Quoted(Format_str(f))

\* The strings a Format is made from: the strings of the table, and strings
\* that are none of them.
FormatStrings ==
    {FormatTable[i].str : i \in 1..Len(FormatTable)}
        \cup {"", "PDF", "pdf ", "tar.gz2", "xyz", "a\"b", "c\\d"}

\* The variants without data.
FormatVariants == {FormatTable[i].variant : i \in 1..Len(FormatTable)}

\* Format::from(s)
FromString ==
    /\ format = <<>>
    /\ \E s \in FormatStrings : text' = <<s>> /\ format' = <<Format_from(s)>>
    /\ UNCHANGED serialized
    /\ UNCHANGED beyond_format

\* A Format written down as a variant: Format::Pdf, Format::Custom("xyz".into()).
FromVariant ==
    /\ format = <<>>
    /\ format' \in {<<Named(v)>> : v \in FormatVariants} \cup {<<Custom(s)>> : s \in FormatStrings}
    /\ UNCHANGED <<text, serialized>>
    /\ UNCHANGED beyond_format

\* serde_json::to_string(&format).unwrap()
Serialize ==
    /\ format # <<>>
    /\ serialized = ""
    /\ serialized' = Format_to_string(format[1])
    /\ UNCHANGED <<text, format>>
    /\ UNCHANGED beyond_format

\* The Format and its text are dropped.
FormatDrop ==
    /\ serialized # ""
    /\ text' = <<>>
    /\ format' = <<>>
    /\ serialized' = ""
    /\ UNCHANGED beyond_format

FormatNext ==
    \/ FromString
    \/ FromVariant
    \/ Serialize
    \/ FormatDrop

FormatSpec == Init /\ [][FormatNext]_vars

(***************************************************************************)
(* Tasks, job::Create and the CreateJobRequest sent to the API.            *)
(***************************************************************************)

\* The values of the fields of a task: ty is the type, s the text of a
\* string, a bool, a float, an enum variant or a Format's variant, n a
\* number, kids the parts of an Option, an Input::List, a map or a Format.
RStr(x) == [ty |-> "str", s |-> x, n |-> 0, kids |-> <<>>]
RBool(b) == [ty |-> "bool", s |-> IF b THEN "true" ELSE "false", n |-> 0, kids |-> <<>>]
RU32(x) == [ty |-> "u32", s |-> "", n |-> x, kids |-> <<>>]
RF32(x) == [ty |-> "f32", s |-> x, n |-> 0, kids |-> <<>>]
REnum(x) == [ty |-> "enum", s |-> x, n |-> 0, kids |-> <<>>]
RFormat(f) == [ty |-> "format", s |-> f.variant, n |-> 0, kids |-> <<RStr(f.custom)>>]
RSingle(x) == [ty |-> "single", s |-> x, n |-> 0, kids |-> <<>>]
RList(items) == [ty |-> "list", s |-> "", n |-> 0, kids |-> items]
REntry(k, v) == [ty |-> "entry", s |-> k, n |-> 0, kids |-> <<v>>]
RMap(entries) == [ty |-> "map", s |-> "", n |-> 0, kids |-> entries]
RNone == [ty |-> "none", s |-> "", n |-> 0, kids |-> <<>>]
RSome(v) == [ty |-> "some", s |-> "", n |-> 0, kids |-> <<v>>]

\* The Format a value of type Format holds.
FormatOf(v) == [variant |-> v.s, custom |-> v.kids[1].s]

\* The decimal digits of a natural number.
RECURSIVE ToDecimal(_)
ToDecimal(x) ==
    IF x < 10 THEN CharAt("0123456789", x + 1)
    ELSE ToDecimal(x \div 10) \o CharAt("0123456789", (x % 10) + 1)

\* serde_json::to_value of a field's value: a string for a string, a Format,
\* an enum variant and an Input::Single, an array for an Input::List, an
\* object for a map, null for a float that is no number, the inner value for
\* a Some.
RECURSIVE to_value(_)
to_value(v) ==
    CASE v.ty \in {"str", "enum", "single"} -> JStr(v.s)
      [] v.ty = "format" -> JStr(Format_str(FormatOf(v)))
      [] v.ty = "bool" -> JBool(v.s)
      [] v.ty = "u32" -> JNum(ToDecimal(v.n))
      [] v.ty = "f32" -> IF v.s \in {"NaN", "inf", "-inf"} THEN JNull ELSE JNum(v.s)
      [] v.ty = "some" -> to_value(v.kids[1])
      [] v.ty = "list" -> JArr([i \in 1..Len(v.kids) |-> to_value(v.kids[i])])
      [] v.ty = "map" ->
             JObj([i \in 1..Len(v.kids) |->
                      [k |-> v.kids[i].s, v |-> to_value(v.kids[i].kids[1])]])
      [] OTHER -> JNull

\* The task structs make_task_types! is given, in their order: the variant
\* of Task, the operation, and of each field its name, when it is left out
\* of the serialization ("none": an opt field that is None; "empty": a map
\* that is empty; "never"), its type, and for an enum its first variant.
TaskTable ==
    << [variant |-> "ImportUrl", operation |-> "import/url",
          fields |->
            << [name |-> "url", skip |-> "never", ty |-> "str", eg |-> ""],
               [name |-> "filename", skip |-> "none", ty |-> "str", eg |-> ""],
               [name |-> "headers", skip |-> "none", ty |-> "map", eg |-> ""] >>],
       [variant |-> "ImportS3", operation |-> "import/s3",
          fields |->
            << [name |-> "bucket", skip |-> "never", ty |-> "str", eg |-> ""],
               [name |-> "region", skip |-> "never", ty |-> "str", eg |-> ""],
               [name |-> "access_key_id", skip |-> "never", ty |-> "str", eg |-> ""],
               [name |-> "secret_access_key", skip |-> "never", ty |-> "str", eg |-> ""],
               [name |-> "endpoint", skip |-> "none", ty |-> "str", eg |-> ""],
               [name |-> "key", skip |-> "none", ty |-> "str", eg |-> ""],
               [name |-> "key_prefix", skip |-> "none", ty |-> "str", eg |-> ""],
               [name |-> "session_token", skip |-> "none", ty |-> "str", eg |-> ""],
               [name |-> "filename", skip |-> "none", ty |-> "str", eg |-> ""] >>],
       [variant |-> "ImportAzureBlob", operation |-> "import/azure/blob",
          fields |->
            << [name |-> "storage_account", skip |-> "never", ty |-> "str", eg |-> ""],
               [name |-> "container", skip |-> "never", ty |-> "str", eg |-> ""],
               [name |-> "storage_access_key", skip |-> "none", ty |-> "str", eg |-> ""],
               [name |-> "sas_token", skip |-> "none", ty |-> "str", eg |-> ""],
               [name |-> "blob", skip |-> "none", ty |-> "str", eg |-> ""],
               [name |-> "blob_prefix", skip |-> "none", ty |-> "str", eg |-> ""],
               [name |-> "filename", skip |-> "none", ty |-> "str", eg |-> ""] >>],
       [variant |-> "ImportGoogleCloud", operation |-> "import/google-cloud-storage",
          fields |->
            << [name |-> "project_id", skip |-> "never", ty |-> "str", eg |-> ""],
               [name |-> "bucket", skip |-> "never", ty |-> "str", eg |-> ""],
               [name |-> "client_email", skip |-> "never", ty |-> "str", eg |-> ""],
               [name |-> "private_key", skip |-> "never", ty |-> "str", eg |-> ""],
               [name |-> "file", skip |-> "none", ty |-> "str", eg |-> ""],
               [name |-> "file_prefix", skip |-> "none", ty |-> "str", eg |-> ""],
               [name |-> "filename", skip |-> "none", ty |-> "str", eg |-> ""] >>],
       [variant |-> "ImportOpenStack", operation |-> "import/openstack",
          fields |->
            << [name |-> "auth_url", skip |-> "never", ty |-> "str", eg |-> ""],
               [name |-> "username", skip |-> "never", ty |-> "str", eg |-> ""],
               [name |-> "password", skip |-> "never", ty |-> "str", eg |-> ""],
               [name |-> "region", skip |-> "never", ty |-> "str", eg |-> ""],
               [name |-> "container", skip |-> "never", ty |-> "str", eg |-> ""],
               [name |-> "tenant_name", skip |-> "none", ty |-> "str", eg |-> ""],
               [name |-> "file", skip |-> "none", ty |-> "str", eg |-> ""],
               [name |-> "file_prefix", skip |-> "none", ty |-> "str", eg |-> ""],
               [name |-> "filename", skip |-> "none", ty |-> "str", eg |-> ""] >>],
       [variant |-> "ImportSFTP", operation |-> "import/sftp",
          fields |->
            << [name |-> "host", skip |-> "never", ty |-> "str", eg |-> ""],
               [name |-> "username", skip |-> "never", ty |-> "str", eg |-> ""],
               [name |-> "password", skip |-> "never", ty |-> "str", eg |-> ""],
               [name |-> "port", skip |-> "none", ty |-> "u32", eg |-> ""],
               [name |-> "private_key", skip |-> "none", ty |-> "str", eg |-> ""],
               [name |-> "file", skip |-> "none", ty |-> "str", eg |-> ""],
               [name |-> "path", skip |-> "none", ty |-> "str", eg |-> ""],
               [name |-> "filename", skip |-> "none", ty |-> "str", eg |-> ""] >>],
       [variant |-> "Convert", operation |-> "convert",
          fields |->
            << [name |-> "input", skip |-> "never", ty |-> "input", eg |-> ""],
               [name |-> "output_format", skip |-> "never", ty |-> "format", eg |-> ""],
               [name |-> "input_format", skip |-> "none", ty |-> "format", eg |-> ""],
               [name |-> "filename", skip |-> "none", ty |-> "str", eg |-> ""],
               [name |-> "engine", skip |-> "none", ty |-> "str", eg |-> ""],
               [name |-> "engine_version", skip |-> "none", ty |-> "str", eg |-> ""],
               [name |-> "timeout", skip |-> "none", ty |-> "u32", eg |-> ""] >>],
       [variant |-> "Optimize", operation |-> "optimize",
          fields |->
            << [name |-> "input", skip |-> "never", ty |-> "input", eg |-> ""],
               [name |-> "input_format", skip |-> "none", ty |-> "format", eg |-> ""],
               [name |-> "profile", skip |-> "none", ty |-> "enum", eg |-> "web"],
               [name |-> "flatten_signatures", skip |-> "none", ty |-> "bool", eg |-> ""],
               [name |-> "colorspace", skip |-> "none", ty |-> "enum", eg |-> "unchanged"],
               [name |-> "filename", skip |-> "none", ty |-> "str", eg |-> ""],
               [name |-> "engine", skip |-> "none", ty |-> "str", eg |-> ""],
               [name |-> "engine_version", skip |-> "none", ty |-> "str", eg |-> ""],
               [name |-> "timeout", skip |-> "none", ty |-> "u32", eg |-> ""] >>],
       [variant |-> "Watermark", operation |-> "watermark",
          fields |->
            << [name |-> "input", skip |-> "never", ty |-> "input", eg |-> ""],
               [name |-> "input_format", skip |-> "none", ty |-> "format", eg |-> ""],
               [name |-> "pages", skip |-> "none", ty |-> "str", eg |-> ""],
               [name |-> "layer", skip |-> "none", ty |-> "enum", eg |-> "above"],
               [name |-> "text", skip |-> "none", ty |-> "str", eg |-> ""],
               [name |-> "font_size", skip |-> "none", ty |-> "u32", eg |-> ""],
               [name |-> "font_width_percent", skip |-> "none", ty |-> "u32", eg |-> ""],
               [name |-> "font_color", skip |-> "none", ty |-> "str", eg |-> ""],
               [name |-> "font_name", skip |-> "none", ty |-> "str", eg |-> ""],
               [name |-> "font_align", skip |-> "none", ty |-> "enum", eg |-> "left"],
               [name |-> "image", skip |-> "none", ty |-> "str", eg |-> ""],
               [name |-> "image_width", skip |-> "none", ty |-> "u32", eg |-> ""],
               [name |-> "image_width_percent", skip |-> "none", ty |-> "u32", eg |-> ""],
               [name |-> "position_vertical", skip |-> "none", ty |-> "enum", eg |-> "left"],
               [name |-> "position_horizontal", skip |-> "none", ty |-> "enum", eg |-> "top"],
               [name |-> "margin_vertical", skip |-> "none", ty |-> "u32", eg |-> ""],
               [name |-> "opacity", skip |-> "none", ty |-> "u32", eg |-> ""],
               [name |-> "rotation", skip |-> "none", ty |-> "u32", eg |-> ""],
               [name |-> "filename", skip |-> "none", ty |-> "str", eg |-> ""],
               [name |-> "engine", skip |-> "none", ty |-> "str", eg |-> ""],
               [name |-> "engine_version", skip |-> "none", ty |-> "str", eg |-> ""],
               [name |-> "timeout", skip |-> "none", ty |-> "u32", eg |-> ""] >>],
       [variant |-> "Thumbnail", operation |-> "thumbnail",
          fields |->
            << [name |-> "input", skip |-> "never", ty |-> "str", eg |-> ""],
               [name |-> "output_format", skip |-> "never", ty |-> "format", eg |-> ""],
               [name |-> "input_format", skip |-> "none", ty |-> "format", eg |-> ""],
               [name |-> "width", skip |-> "none", ty |-> "u32", eg |-> ""],
               [name |-> "height", skip |-> "none", ty |-> "u32", eg |-> ""],
               [name |-> "fit", skip |-> "none", ty |-> "enum", eg |-> "max"],
               [name |-> "count", skip |-> "none", ty |-> "u32", eg |-> ""],
               [name |-> "timestamp", skip |-> "none", ty |-> "str", eg |-> ""],
               [name |-> "filename", skip |-> "none", ty |-> "str", eg |-> ""],
               [name |-> "engine", skip |-> "none", ty |-> "str", eg |-> ""],
               [name |-> "engine_version", skip |-> "none", ty |-> "str", eg |-> ""],
               [name |-> "timeout", skip |-> "none", ty |-> "u32", eg |-> ""] >>],
       [variant |-> "Merge", operation |-> "merge",
          fields |->
            << [name |-> "input", skip |-> "never", ty |-> "input", eg |-> ""],
               [name |-> "output_format", skip |-> "never", ty |-> "format", eg |-> ""],
               [name |-> "filename", skip |-> "none", ty |-> "str", eg |-> ""],
               [name |-> "engine", skip |-> "none", ty |-> "str", eg |-> ""],
               [name |-> "engine_version", skip |-> "none", ty |-> "str", eg |-> ""],
               [name |-> "timeout", skip |-> "none", ty |-> "u32", eg |-> ""] >>],
       [variant |-> "Archive", operation |-> "archive",
          fields |->
            << [name |-> "input", skip |-> "never", ty |-> "input", eg |-> ""],
               [name |-> "output_format", skip |-> "never", ty |-> "format", eg |-> ""],
               [name |-> "filename", skip |-> "none", ty |-> "str", eg |-> ""],
               [name |-> "engine", skip |-> "none", ty |-> "str", eg |-> ""],
               [name |-> "engine_version", skip |-> "none", ty |-> "str", eg |-> ""],
               [name |-> "timeout", skip |-> "none", ty |-> "u32", eg |-> ""] >>],
       [variant |-> "Capture", operation |-> "capture-website",
          fields |->
            << [name |-> "url", skip |-> "never", ty |-> "str", eg |-> ""],
               [name |-> "output_format", skip |-> "never", ty |-> "format", eg |-> ""],
               [name |-> "print_background", skip |-> "never", ty |-> "bool", eg |-> ""],
               [name |-> "display_header_footer", skip |-> "never", ty |-> "bool", eg |-> ""],
               [name |-> "headers", skip |-> "empty", ty |-> "map", eg |-> ""],
               [name |-> "pages", skip |-> "none", ty |-> "str", eg |-> ""],
               [name |-> "zoom", skip |-> "none", ty |-> "f32", eg |-> ""],
               [name |-> "page_width", skip |-> "none", ty |-> "f32", eg |-> ""],
               [name |-> "page_height", skip |-> "none", ty |-> "f32", eg |-> ""],
               [name |-> "margin_top", skip |-> "none", ty |-> "f32", eg |-> ""],
               [name |-> "margin_bottom", skip |-> "none", ty |-> "f32", eg |-> ""],
               [name |-> "margin_left", skip |-> "none", ty |-> "f32", eg |-> ""],
               [name |-> "header_template", skip |-> "none", ty |-> "str", eg |-> ""],
               [name |-> "footer_template", skip |-> "none", ty |-> "str", eg |-> ""],
               [name |-> "wait_until", skip |-> "none", ty |-> "enum", eg |-> "Load"],
               [name |-> "wait_for_element", skip |-> "none", ty |-> "str", eg |-> ""],
               [name |-> "wait_time", skip |-> "none", ty |-> "u32", eg |-> ""],
               [name |-> "css_media_type", skip |-> "none", ty |-> "enum", eg |-> "print"],
               [name |-> "filename", skip |-> "none", ty |-> "map", eg |-> ""],
               [name |-> "engine", skip |-> "none", ty |-> "str", eg |-> ""],
               [name |-> "engine_version", skip |-> "none", ty |-> "str", eg |-> ""],
               [name |-> "timeout", skip |-> "none", ty |-> "u32", eg |-> ""] >>],
       [variant |-> "ExportUrl", operation |-> "export/url",
          fields |->
            << [name |-> "input", skip |-> "never", ty |-> "input", eg |-> ""],
               [name |-> "inline", skip |-> "never", ty |-> "bool", eg |-> ""],
               [name |-> "archive_multiple_files", skip |-> "never", ty |-> "bool", eg |-> ""] >>],
       [variant |-> "ExportS3", operation |-> "export/s3",
          fields |->
            << [name |-> "input", skip |-> "never", ty |-> "input", eg |-> ""],
               [name |-> "bucket", skip |-> "never", ty |-> "str", eg |-> ""],
               [name |-> "region", skip |-> "never", ty |-> "str", eg |-> ""],
               [name |-> "access_key_id", skip |-> "never", ty |-> "str", eg |-> ""],
               [name |-> "secret_access_key", skip |-> "never", ty |-> "str", eg |-> ""],
               [name |-> "endpoint", skip |-> "none", ty |-> "str", eg |-> ""],
               [name |-> "key", skip |-> "none", ty |-> "str", eg |-> ""],
               [name |-> "key_prefix", skip |-> "none", ty |-> "str", eg |-> ""],
               [name |-> "session_token", skip |-> "none", ty |-> "str", eg |-> ""],
               [name |-> "acl", skip |-> "none", ty |-> "str", eg |-> ""],
               [name |-> "cache_control", skip |-> "none", ty |-> "str", eg |-> ""],
               [name |-> "content_disposition", skip |-> "none", ty |-> "str", eg |-> ""],
               [name |-> "content_type", skip |-> "none", ty |-> "str", eg |-> ""],
               [name |-> "metadata", skip |-> "none", ty |-> "json", eg |-> ""],
               [name |-> "server_side_encrpytion", skip |-> "none", ty |-> "str", eg |-> ""],
               [name |-> "tagging", skip |-> "none", ty |-> "json", eg |-> ""] >>],
       [variant |-> "ExportAzureBlob", operation |-> "export/azure/blob",
          fields |->
            << [name |-> "input", skip |-> "never", ty |-> "input", eg |-> ""],
               [name |-> "storage_account", skip |-> "never", ty |-> "str", eg |-> ""],
               [name |-> "container", skip |-> "never", ty |-> "str", eg |-> ""],
               [name |-> "storage_access_key", skip |-> "none", ty |-> "str", eg |-> ""],
               [name |-> "sas_token", skip |-> "none", ty |-> "str", eg |-> ""],
               [name |-> "blob", skip |-> "none", ty |-> "str", eg |-> ""],
               [name |-> "blob_prefix", skip |-> "none", ty |-> "str", eg |-> ""],
               [name |-> "metadata", skip |-> "none", ty |-> "json", eg |-> ""] >>],
       [variant |-> "ExportGoogleCloud", operation |-> "export/google-cloud-storage",
          fields |->
            << [name |-> "input", skip |-> "never", ty |-> "input", eg |-> ""],
               [name |-> "project_id", skip |-> "never", ty |-> "str", eg |-> ""],
               [name |-> "bucket", skip |-> "never", ty |-> "str", eg |-> ""],
               [name |-> "client_email", skip |-> "never", ty |-> "str", eg |-> ""],
               [name |-> "private_key", skip |-> "never", ty |-> "str", eg |-> ""],
               [name |-> "file", skip |-> "none", ty |-> "str", eg |-> ""],
               [name |-> "file_prefix", skip |-> "none", ty |-> "str", eg |-> ""] >>],
       [variant |-> "ExportOpenStack", operation |-> "export/openstack",
          fields |->
            << [name |-> "input", skip |-> "never", ty |-> "input", eg |-> ""],
               [name |-> "auth_url", skip |-> "never", ty |-> "str", eg |-> ""],
               [name |-> "username", skip |-> "never", ty |-> "str", eg |-> ""],
               [name |-> "password", skip |-> "never", ty |-> "str", eg |-> ""],
               [name |-> "region", skip |-> "never", ty |-> "str", eg |-> ""],
               [name |-> "container", skip |-> "never", ty |-> "str", eg |-> ""],
               [name |-> "tenant_name", skip |-> "none", ty |-> "str", eg |-> ""],
               [name |-> "file", skip |-> "none", ty |-> "str", eg |-> ""],
               [name |-> "file_prefix", skip |-> "none", ty |-> "str", eg |-> ""] >>],
       [variant |-> "ExportSFTP", operation |-> "export/sftp",
          fields |->
            << [name |-> "input", skip |-> "never", ty |-> "input", eg |-> ""],
               [name |-> "host", skip |-> "never", ty |-> "str", eg |-> ""],
               [name |-> "username", skip |-> "never", ty |-> "str", eg |-> ""],
               [name |-> "port", skip |-> "none", ty |-> "u32", eg |-> ""],
               [name |-> "password", skip |-> "none", ty |-> "str", eg |-> ""],
               [name |-> "private_key", skip |-> "none", ty |-> "str", eg |-> ""],
               [name |-> "file", skip |-> "none", ty |-> "str", eg |-> ""],
               [name |-> "path", skip |-> "none", ty |-> "str", eg |-> ""] >>] >>

\* The row of a variant.
TaskRow(variant) ==
    TaskTable[Min({i \in 1..Len(TaskTable) : TaskTable[i].variant = variant})]

\* A task: the variant of Task and the values of the struct's fields, in
\* their order.
TaskOf(variant, vals) == [variant |-> variant, vals |-> vals]

\* Task::operation(&self): match self { $($Task::$TaskName(_) => $operation,)* }
Task_operation(task) == TaskRow(task.variant).operation

\* #[derive(serde::Serialize)] of a task struct, into serde_json::to_value:
\* an object with a member for every field that is not left out.
Struct_to_value(fields, vals) ==
    LET kept == {i \in 1..Len(fields) :
                    ~ \/ fields[i].skip = "none" /\ vals[i].ty = "none"
                      \/ fields[i].skip = "empty" /\ vals[i].kids = <<>>}
    IN  JObj([m \in 1..Cardinality(kept) |->
                 [k |-> fields[Kth(kept, m)].name, v |-> to_value(vals[Kth(kept, m)])]])

\* serde_json::Map::insert: the value of the key is replaced, or the member
\* is added.
Insert(obj, key, value) ==
    IF \E m \in 1..Len(obj.kids) : obj.kids[m].k = key
    THEN JObj([m \in 1..Len(obj.kids) |->
                  IF obj.kids[m].k = key THEN [k |-> key, v |-> value] ELSE obj.kids[m]])
    ELSE JObj(Append(obj.kids, [k |-> key, v |-> value]))

\* A faulty to_job_task, which leaves the operation out.
to_job_task_fields_only(task) == Struct_to_value(TaskRow(task.variant).fields, task.vals)

\* $TaskName::to_job_task(&self), which Task::to_job_task calls for its
\* variant: serde_json::to_value(task), then the insert of "operation".
to_job_task(task) ==
    Insert(Struct_to_value(TaskRow(task.variant).fields, task.vals), "operation",
           JStr(TaskRow(task.variant).operation))

\* A value of the type, for a field of a task: the first of a kind, and
\* another one.
Sample(field, which) ==
    CASE field.ty = "str" -> RStr(IF which = 1 THEN "a-" \o field.name ELSE "")
      [] field.ty = "format" -> RFormat(IF which = 1 THEN Named("Pdf") ELSE Custom("xyz"))
      [] field.ty = "bool" -> RBool(which = 1)
      [] field.ty = "u32" -> RU32(IF which = 1 THEN 60 ELSE 0)
      [] field.ty = "f32" -> RF32(IF which = 1 THEN "1.5" ELSE "NaN")
      [] field.ty = "enum" -> REnum(field.eg)
      [] field.ty = "input" ->
             IF which = 1 THEN RSingle("import") ELSE RList(<<RStr("a"), RStr("b")>>)
      [] OTHER -> RMap(IF which = 1 THEN <<REntry("k", RStr("v"))>> ELSE <<>>)

\* The tasks of the model, of every variant three: with no opt field given,
\* with every field given, and with every field given another value.
FieldValue(field, fill) ==
    IF field.skip = "none"
    THEN (IF fill = "bare" THEN RNone ELSE RSome(Sample(field, IF fill = "full" THEN 1 ELSE 2)))
    ELSE Sample(field, IF fill = "odd" THEN 2 ELSE 1)
SampleTask(row, fill) ==
    TaskOf(row.variant, [i \in 1..Len(row.fields) |-> FieldValue(row.fields[i], fill)])
Tasks ==
    {SampleTask(TaskTable[i], fill) : i \in 1..Len(TaskTable), fill \in {"bare", "full", "odd"}}

\* Option<Cow<str>>, for tag and webhook_url.
Tags == {NoneStr, SomeStr("myjob-123")}
WebhookUrls == {NoneStr, SomeStr("https://example.com/hook")}

\* The ImportConvertExport values of the model.
Options ==
    [tag : Tags,
     import : {SampleTask(TaskRow("ImportUrl"), fill).vals : fill \in {"bare", "full"}},
     input_format : {Named("Pdf"), Custom("xyz")},
     output_format : {Named("Docx"), Named("Png")},
     export_inline : BOOLEAN,
     timeout : {RNone, RSome(RU32(60))},
     webhook_url : WebhookUrls]

\* A faulty create_job, whose export takes the imported file.
create_job_export_of_import(self) ==
    [tasks |->
        << [k |-> "import", v |-> TaskOf("ImportUrl", self.import)],
           [k |-> "convert",
            v |-> TaskOf("Convert",
                         << RSingle("import"), RFormat(self.output_format),
                            RSome(RFormat(self.input_format)), RNone, RNone, RNone,
                            self.timeout >>)],
           [k |-> "export",
            v |-> TaskOf("ExportUrl",
                         << RSingle("import"), RBool(self.export_inline), RBool(FALSE) >>)] >>,
     tag |-> self.tag,
     webhook_url |-> self.webhook_url]

\* ImportConvertExport::create_job(self): the fields of Convert and of
\* ExportUrl in the order of their structs.
create_job(self) ==
    [tasks |->
        << [k |-> "import", v |-> TaskOf("ImportUrl", self.import)],
           [k |-> "convert",
            v |-> TaskOf("Convert",
                         << RSingle("import"),                  \* input: import_id.into()
                            RFormat(self.output_format),        \* output_format
                            RSome(RFormat(self.input_format)),  \* input_format: Some(..)
                            RNone, RNone, RNone,                \* filename, engine, engine_version
                            self.timeout >>)],                  \* timeout
           [k |-> "export",
            v |-> TaskOf("ExportUrl",
                         << RSingle("convert"),                 \* input: convert_id.into()
                            RBool(self.export_inline),          \* inline
                            RBool(FALSE) >>)] >>,               \* archive_multiple_files
     tag |-> self.tag,
     webhook_url |-> self.webhook_url]

\* The job::Create values client code writes down itself: a job of one task,
\* for every task of the model, and a job of two.
Creates ==
    {[tasks |-> <<[k |-> "task-1", v |-> t]>>, tag |-> tag, webhook_url |-> NoneStr] :
        t \in Tasks, tag \in Tags}
    \cup {[tasks |-> << [k |-> "a", v |-> SampleTask(TaskRow("ImportS3"), "bare")],
                        [k |-> "b", v |-> SampleTask(TaskRow("Merge"), "full")] >>,
            tag |-> NoneStr, webhook_url |-> u] : u \in WebhookUrls}

\* impl From<Create> for CreateJobRequest: every task under its name as its
\* to_job_task().unwrap(); tag and webhook_url as they are.
CreateJobRequest_from(c) ==
    [tasks |-> [i \in 1..Len(c.tasks) |-> [k |-> c.tasks[i].k, v |-> to_job_task(c.tasks[i].v)]],
     tag |-> c.tag,
     webhook_url |-> c.webhook_url]

\* Client code fills in an ImportConvertExport.
GiveOptions ==
    /\ options = <<>>
    /\ call = <<>>
    /\ \E o \in Options : options' = <<o>>
    /\ UNCHANGED <<call, request>>
    /\ UNCHANGED beyond_create

\* options.create_job()
CreateJob ==
    /\ options # <<>>
    /\ call = <<>>
    /\ call' = <<create_job(options[1])>>
    /\ UNCHANGED <<options, request>>
    /\ UNCHANGED beyond_create

\* Client code writes a job::Create { tasks, tag, webhook_url } itself.
GiveCreate ==
    /\ options = <<>>
    /\ call = <<>>
    /\ \E c \in Creates : call' = <<c>>
    /\ UNCHANGED <<options, request>>
    /\ UNCHANGED beyond_create

\* `job::Create as job::CreateJobRequest`: the call is converted for sending.
IntoRequest ==
    /\ call # <<>>
    /\ request = <<>>
    /\ request' = <<CreateJobRequest_from(call[1])>>
    /\ UNCHANGED <<options, call>>
    /\ UNCHANGED beyond_create

\* The request is sent; the next one may be made.
Send ==
    /\ request # <<>>
    /\ options' = <<>>
    /\ call' = <<>>
    /\ request' = <<>>
    /\ UNCHANGED beyond_create

CreateNext ==
    \/ GiveOptions
    \/ CreateJob
    \/ GiveCreate
    \/ IntoRequest
    \/ Send

CreateSpec == Init /\ [][CreateNext]_vars

(***************************************************************************)
(* Job::get_task_by_name: self.tasks.iter().find(..), one task after the   *)
(* other from the first, up to the first whose name is Some(name).         *)
(***************************************************************************)

\* The names a task of a job may have, and the names asked for.
TaskNames == {NoneStr, SomeStr("import"), SomeStr("export"), SomeStr("")}
AskedNames == {"import", "export", "convert", ""}

\* The task lists of up to MaxTasks tasks with these names.
NamedTaskLists ==
    UNION {[1..n -> TaskNames] : n \in 0..MaxTasks}

\* The job "j1" with one task for every name of the list.
JobOfNames(names) ==
    [NoJob EXCEPT !.id = "j1",
                  !.tasks = [i \in 1..Len(names) |->
                                [NoTaskStatus EXCEPT !.id = "t" \o CharAt("0123456789", i + 1),
                                                     !.job_id = SomeStr("j1"),
                                                     !.name = names[i],
                                                     !.operation = "convert",
                                                     !.status = "Finished"]]]

\* The jobs get_task_by_name is called on.
NamedJobs == {JobOfNames(names) : names \in NamedTaskLists}

\* A faulty closure, which takes a task without a name as one named "".
NameMatchesUnwrapped(task, name) == task.name.val = name

\* |task| matches!(&task.name, Some(task_name) if task_name == name)
NameMatches(task, name) == task.name.some /\ task.name.val = name

\* A call job.get_task_by_name(name).
GetTaskByName ==
    /\ get_pc = "idle"
    /\ \E j \in NamedJobs, name \in AskedNames :
           /\ this' = <<j>>
           /\ by_name' = name
    /\ iter' = 1
    /\ found' = <<>>
    /\ get_pc' = "find"
    /\ UNCHANGED beyond_get

\* One step of find: the iterator is at its end (None), or the closure
\* takes the task it is at (Some(task)), or it goes on to the next.
Find ==
    /\ get_pc = "find"
    /\ IF iter > Len(this[1].tasks)
       THEN get_pc' = "done" /\ UNCHANGED <<iter, found>>
       ELSE IF NameMatches(this[1].tasks[iter], by_name)
       THEN get_pc' = "done" /\ found' = <<iter>> /\ UNCHANGED iter
       ELSE iter' = iter + 1 /\ UNCHANGED <<found, get_pc>>
    /\ UNCHANGED <<this, by_name>>
    /\ UNCHANGED beyond_get

\* The call has returned; the caller lets go of the job and of the task.
GetReturn ==
    /\ get_pc = "done"
    /\ this' = <<>>
    /\ by_name' = ""
    /\ iter' = 0
    /\ found' = <<>>
    /\ get_pc' = "idle"
    /\ UNCHANGED beyond_get

GetNext ==
    \/ GetTaskByName
    \/ Find
    \/ GetReturn

GetSpec == Init /\ [][GetNext]_vars

(***************************************************************************)
(* The vocabulary of the properties.  These definitions restate, apart     *)
(* from the model of the code, what a signature string means.              *)
(***************************************************************************)

\* HMAC(signing_secret, json), the tag of the call's own payload and secret.
Tag == MacTable[signing_secret, json]

\* hex(HMAC(signing_secret, json)), the signature that belongs to the call.
CorrectSignature == encode(Tag)

\* The value of a hex digit of either case.
HexValue(c) ==
    CHOOSE n \in 0..15 : c \in {CharAt("0123456789abcdef", n + 1), CharAt("0123456789ABCDEF", n + 1)}

\* 2 * SigLen hex digits.
WellFormed(s) == Len(s) = 2 * SigLen /\ \A i \in 1..Len(s) : CharAt(s, i) \in HexDigits

\* The SigLen bytes a well-formed signature string denotes.
HexBytes(s) ==
    [i \in 1..SigLen |-> 16 * HexValue(CharAt(s, 2 * i - 1)) + HexValue(CharAt(s, 2 * i))]

\* The places where s differs from t, two texts of one length.
Differences(s, t) == {i \in 1..Len(t) : CharAt(s, i) # CharAt(t, i)}

\* s is t with exactly one character replaced by a different one.
SingleMutation(s, t) == Len(s) = Len(t) /\ Cardinality(Differences(s, t)) = 1

\* The members of a JSON object that carry the key; none for any other value.
Members(doc, key) ==
    IF doc.t = "obj" THEN {i \in 1..Len(doc.kids) : doc.kids[i].k = key} ELSE {}

\* The payload is no JSON text.
NotJson(p) == ~DocumentTable[p].ok

\* The payload is a JSON text without the key at its top level.
OmitsKey(p, key) == DocumentTable[p].ok /\ Members(DocumentTable[p].v, key) = {}

\* The payload is a JSON array.
IsArray(p) == DocumentTable[p].ok /\ DocumentTable[p].v.t = "arr"

\* The strings given for `event` in the payload, a JSON object.
EventStrings(p) ==
    IF DocumentTable[p].ok
    THEN {DocumentTable[p].v.kids[i].v.s :
             i \in {m \in Members(DocumentTable[p].v, "event") :
                       DocumentTable[p].v.kids[m].v.t = "str"}}
    ELSE {}

\* The variant each of the three event names stands for.
KindOf(name) ==
    IF name = "job.created" THEN "JobCreated"
    ELSE IF name = "job.finished" THEN "JobFinished"
    ELSE IF name = "job.failed" THEN "JobFailed"
    ELSE "none"

Returns(kind) == pc = "done" /\ result.kind = kind

\* What a JSON document gives for a field of a struct: the value of the
\* member with the field's name in an object, the element at the field's
\* place in an array; <<>> if there is none.
Part(doc, key, idx) ==
    IF doc.t = "obj"
    THEN IF Members(doc, key) = {} THEN <<>> ELSE <<doc.kids[Max(Members(doc, key))].v>>
    ELSE IF doc.t = "arr" /\ idx <= Len(doc.kids) THEN <<doc.kids[idx]>> ELSE <<>>

\* part gives the string s.
GivesString(part, s) == part # <<>> /\ part[1].t = "str" /\ part[1].s = s

\* The map holds what the JSON object gives: an entry for every key, with
\* the value of the key's member.
MapReflects(map, obj) ==
    /\ {map[n].k : n \in 1..Len(map)} = {obj.kids[m].k : m \in 1..Len(obj.kids)}
    /\ \A n \in 1..Len(map) : <<map[n].v>> = Part(obj, map[n].k, 0)

\* The task holds the id and the result map the JSON document gives.
TaskReflects(task, doc, res) ==
    /\ GivesString(Part(doc, "id", 1), task.id)
    /\ IF res = <<>> \/ res = <<JNull>>
       THEN task.result = NoneMap
       ELSE task.result.some /\ MapReflects(task.result.val, res[1])

\* The tasks are those the JSON document gives, one for one, in its order.
TasksReflect(tasks, part) ==
    IF part = <<>> THEN tasks = <<>>
    ELSE /\ Len(tasks) = Len(part[1].kids)
         /\ \A i \in 1..Len(tasks) :
                TaskReflects(tasks[i], part[1].kids[i], Part(part[1].kids[i], "result", 14))

\* The event is of the kind the JSON document names, and its job has the id
\* and the tasks the document gives.
EventReflects(ev, name, jobdoc) ==
    /\ name # <<>>
    /\ jobdoc # <<>>
    /\ name[1].t = "str" => ev.event = KindOf(name[1].s)
    /\ GivesString(Part(jobdoc[1], "id", 1), ev.job.id)
    /\ TasksReflect(ev.job.tasks, Part(jobdoc[1], "tasks", 4))

\* The event reflects the payload that was read as doc.
Reflects(ev, doc) == EventReflects(ev, Part(doc, "event", 1), Part(doc, "job", 2))

\* The names under which the entries of a map are filed.
Keys(entries) == {entries[i].k : i \in 1..Len(entries)}

\* What is filed under the name; the entries hold the name once.
Filed(entries, name) == entries[CHOOSE i \in 1..Len(entries) : entries[i].k = name].v

\* The value of the task's field of that name.
FieldOf(task, name) ==
    task.vals[CHOOSE i \in 1..Len(task.vals) : TaskRow(task.variant).fields[i].name = name]

\* The places of the fields of a task that its serialization holds: all but
\* an opt field that is None and a map marked to be left out when empty.
Serialized(task) ==
    {i \in 1..Len(task.vals) :
        /\ TaskRow(task.variant).fields[i].skip = "none" => task.vals[i] # RNone
        /\ TaskRow(task.variant).fields[i].skip = "empty" => task.vals[i] # RMap(<<>>)}

\* The JSON object holds the serialized fields of the task, each under its
\* name, and "operation" with the task's operation, and nothing else.
IsJobTask(obj, task, names) ==
    /\ obj.t = "obj"
    /\ Cardinality(Keys(obj.kids)) = Len(obj.kids)
    /\ Keys(obj.kids) = names \cup {"operation"}
    /\ Filed(obj.kids, "operation") = JStr(Task_operation(task))
    /\ \A i \in Serialized(task) :
           Filed(obj.kids, TaskRow(task.variant).fields[i].name) = to_value(task.vals[i])

\* The three tasks create_job is to make of the options.
IsImportConvertExport(import, convert, export, o) ==
    /\ import = TaskOf("ImportUrl", o.import)
    /\ convert.variant = "Convert"
    /\ FieldOf(convert, "input") = RSingle("import")
    /\ FieldOf(convert, "input_format") = RSome(RFormat(o.input_format))
    /\ FieldOf(convert, "output_format") = RFormat(o.output_format)
    /\ FieldOf(convert, "timeout") = o.timeout
    /\ export.variant = "ExportUrl"
    /\ FieldOf(export, "input") = RSingle("convert")
    /\ FieldOf(export, "inline") = RBool(o.export_inline)

\* The task objects of the payload that was read as doc: the objects in the
\* array the job gives as `tasks`.
TaskObjects(tasks) ==
    IF tasks = <<>> \/ tasks[1].t # "arr" THEN {}
    ELSE {tasks[1].kids[i] : i \in {n \in 1..Len(tasks[1].kids) : tasks[1].kids[n].t = "obj"}}
TasksPart(jobdoc) == IF jobdoc = <<>> THEN <<>> ELSE Part(jobdoc[1], "tasks", 4)
TaskObjectsOf(doc) == TaskObjects(TasksPart(Part(doc, "job", 2)))

\* The four strings of a status.
StatusStrings == {"waiting", "processing", "finished", "error"}

\* The task object lacks `id`, `operation` or `status`, or its `status` is a
\* string that is none of the four.
Deficient(task) ==
    \/ \E key \in {"id", "operation", "status"} : Members(task, key) = {}
    \/ \E m \in Members(task, "status") :
           task.kids[m].v.t = "str" /\ task.kids[m].v.s \notin StatusStrings

\* How far a call has come.
Position == [idle |-> 0, decode |-> 1, hmac |-> 2, compare |-> 3, parse |-> 4, done |-> 5]

(***************************************************************************)
(* The properties.                                                         *)
(***************************************************************************)

\* C1, as stated: for all payloads and secrets, from_json with the correct
\* signature hex(HMAC(k, p)) returns Ok, and the event's signature() is
\* HMAC(k, p).  (Refuted: a correctly signed payload that is no event.)
C1_Original ==
    (pc = "done" /\ signature = CorrectSignature)
        => (result.kind = "Ok" /\ Event_signature(result.event[1]) = Tag)

\* C1, amended: with the correct signature hex(HMAC(k, p)), from_json never
\* fails with HexDecodeSignature or SignatureMismatch; it returns Ok exactly
\* when the payload is an event, and then the event's signature() is
\* HMAC(k, p); for any other payload it returns Err(Json).
C1_CorrectSignatureAccepted ==
    (pc = "done" /\ signature = CorrectSignature)
        => /\ result.kind \in {"Ok", "Json"}
           /\ result.kind = "Ok" <=> json \in EventPayloads
           /\ result.kind = "Ok" => Event_signature(result.event[1]) = Tag

C1_Witness ==
    /\ Returns("Ok")
    /\ signature = CorrectSignature
    /\ json = ExampleWebhook
    /\ Len(signing_secret) = MaxSecretLen
    /\ Event_signature(result.event[1]) = Tag

\* C2: for every payload and secret, a signature string of 64 hex digits
\* whose 32 bytes differ from HMAC(secret, payload) makes from_json return
\* Err(SignatureMismatch); so does an accepted signature with one byte
\* changed and encoded again.
C2_WrongBytesMismatch ==
    (pc = "done" /\ WellFormed(signature) /\ HexBytes(signature) # Tag)
        => (result = Err("SignatureMismatch", "") /\ event = <<>>)

C2_Witness ==
    /\ Returns("SignatureMismatch")
    /\ json = ExampleWebhook
    /\ Tag[4] # 0
    /\ signature = encode([Tag EXCEPT ![4] = 0])

\* C3: a signature string that is no valid hexadecimal, or that does not
\* decode to exactly 32 bytes, makes from_json return
\* Err(HexDecodeSignature) for every payload and secret, before any HMAC
\* is computed.
C3_MalformedSignatureRejected ==
    (pc = "done" /\ ~WellFormed(signature))
        => /\ result.kind = "HexDecodeSignature"
           /\ result.cause \in {"OddLength", "InvalidStringLength", "InvalidHexCharacter"}
           /\ actual_signature = <<>>
           /\ event = <<>>

C3_Witness ==
    /\ Returns("HexDecodeSignature")
    /\ json = ""
    /\ signing_secret = <<1>>
    /\ signature = SubSeq(TestSignature, 1, 62)

\* C4, as stated: a correctly signed payload that is no well-formed JSON, or
\* is JSON that omits the `event` key or the `job` key, makes from_json
\* return Err(Json).  (Refuted: the array ["job.failed", {"id": "j1"}].)
C4_Original ==
    (/\ pc = "done"
     /\ signature = CorrectSignature
     /\ (NotJson(json) \/ OmitsKey(json, "event") \/ OmitsKey(json, "job")))
        => result.kind = "Json"

\* C4, amended: a correctly signed payload that is no well-formed JSON, or
\* is a JSON value other than an array that omits the `event` key or the
\* `job` key, makes from_json return Err(Json), never SignatureMismatch and
\* never Ok.  (An array is read by position: [event, job].)
C4_MalformedPayloadJson ==
    (/\ pc = "done"
     /\ signature = CorrectSignature
     /\ \/ NotJson(json)
        \/ (~IsArray(json) /\ (OmitsKey(json, "event") \/ OmitsKey(json, "job"))))
        => (result = Err("Json", "") /\ event = <<>>)

C4_Witness ==
    /\ Returns("Json")
    /\ signature = CorrectSignature
    /\ json = "{\"event\":\"job.created\"}"
    /\ OmitsKey(json, "job")

\* C5: the steps of from_json are gated in the order decode, HMAC, compare,
\* deserialize: the HMAC is computed only once the signature string has been
\* decoded, and the payload is deserialized only once the two signatures
\* have been compared and are equal.
C5_GatingOrder ==
    /\ pc \in {"hmac", "compare", "parse"} => WellFormed(signature)
    /\ actual_signature # <<>>
           => (WellFormed(signature) /\ expected_signature = HexBytes(signature))
    /\ pc = "parse" => (actual_signature # <<>> /\ actual_signature = expected_signature)
    /\ (event # <<>> \/ (pc = "done" /\ result.kind \in {"Ok", "Json"}))
           => (actual_signature # <<>> /\ actual_signature = expected_signature)

C5_Witness ==
    /\ pc = "parse"
    /\ actual_signature = expected_signature
    /\ Len(actual_signature) = SigLen
    /\ event = <<>>

\* C6, as stated: the correct signature's hex string with one character
\* replaced by a different one always makes from_json fail with
\* SignatureMismatch.  (Refuted: a character that is no hex digit, and a
\* letter in its other case.)
C6_Original ==
    (pc = "done" /\ SingleMutation(signature, CorrectSignature))
        => result.kind = "SignatureMismatch"

\* C6, amended: the correct signature's hex string with one character
\* replaced: by a hex digit of another value, from_json fails with
\* SignatureMismatch; by a character that is no hex digit, it fails with
\* HexDecodeSignature; by the same digit in its other case, the signature is
\* still the correct one and is accepted.  It never panics.
C6_SingleMutation ==
    (pc = "done" /\ SingleMutation(signature, CorrectSignature))
        => LET i == CHOOSE d \in Differences(signature, CorrectSignature) : TRUE
           IN  IF CharAt(signature, i) \notin HexDigits
               THEN result.kind = "HexDecodeSignature"
               ELSE IF HexValue(CharAt(signature, i)) # HexValue(CharAt(CorrectSignature, i))
                    THEN result.kind = "SignatureMismatch"
                    ELSE result.kind \in {"Ok", "Json"}

C6_Witness ==
    /\ Returns("SignatureMismatch")
    /\ json = ExampleWebhook
    /\ SingleMutation(signature, CorrectSignature)
    /\ Differences(signature, CorrectSignature) = {2 * SigLen}

\* C7: in every Event from_json returns, each task of the job has its job_id
\* filled in.  (Refuted: from_json keeps the tasks as they were read.)
C7_TasksBackfilled ==
    (pc = "done" /\ result.kind = "Ok")
        => \A i \in 1..Len(result.event[1].job.tasks) :
               result.event[1].job.tasks[i].job_id = SomeStr(result.event[1].job.id)

\* C8: whenever from_json returns Ok, the event's signature() is the 32
\* bytes HMAC(secret, payload) the call computed, and these are the bytes
\* the signature string decodes to.
C8_SignatureIsComputed ==
    (pc = "done" /\ result.kind = "Ok")
        => /\ Event_signature(result.event[1]) = Tag
           /\ Event_signature(result.event[1]) = actual_signature
           /\ Len(Event_signature(result.event[1])) = SigLen
           /\ WellFormed(signature)
           /\ Event_signature(result.event[1]) = HexBytes(signature)

C8_Witness ==
    /\ Returns("Ok")
    /\ signature # CorrectSignature
    /\ signature = UpperText(CorrectSignature)
    /\ Event_signature(result.event[1]) = Tag

\* C9: EventKind is read from exactly the strings "job.created",
\* "job.finished" and "job.failed", as JobCreated, JobFinished and
\* JobFailed; a correctly signed payload whose `event` is any other string
\* makes from_json return Err(Json).
C9_EventKindClosed ==
    (pc = "done" /\ signature = CorrectSignature)
        => \A name \in EventStrings(json) :
               IF KindOf(name) = "none"
               THEN result.kind = "Json"
               ELSE result.kind = "Ok" => result.event[1].event = KindOf(name)

C9_Witness ==
    /\ Returns("Json")
    /\ signature = CorrectSignature
    /\ EventStrings(json) = {"Job.Created"}

\* C10: for every payload, signature string and secret, the empty ones
\* included, from_json ends with exactly one of Ok, Err(HexDecodeSignature),
\* Err(SignatureMismatch), Err(Json): it never panics; every step moves the
\* call forward, so it ends within four steps; nothing is returned before the
\* end; and an Event exists only in an Ok for which every step succeeded.
C10_OneOutcome ==
    /\ [](/\ pc \in DOMAIN Position
          /\ pc \notin {"idle", "done"} => result = NoResult
          /\ pc = "done"
                 => /\ result.kind \in {"Ok", "HexDecodeSignature", "SignatureMismatch", "Json"}
                    /\ result.kind = "Ok" <=> result.event # <<>>
                    /\ result.kind = "Ok"
                           => /\ WellFormed(signature)
                              /\ actual_signature = expected_signature
                              /\ event # <<>>
                              /\ result.event[1].event = event[1].event
                              /\ result.event[1].job = event[1].job)
    /\ [][/\ pc # "done" => Position[pc'] > Position[pc]
          /\ pc = "done" => pc' = "idle"
          /\ result' # result => pc' \in {"done", "idle"}]_vars

C10_Witness ==
    /\ Returns("Json")
    /\ json = ""
    /\ signing_secret = <<>>
    /\ signature = CorrectSignature

\* The payloads of the client code whose tag under its secret is `tag`.
PayloadsOfTag(tag) == {p \in ClientPayloads : MacTable[ClientSecret, p] = tag}

\* The payload is an event, and its kind and job are those of ev.
ReadFrom(ev, r) == r.ok /\ ev.event = r.v.event /\ ev.job = r.v.job

C12_ConstantTime == compared # 0 => compared = SigLen

\* What the call returns when it runs alone, from its first step to its last.
Finish(c) == IF c.pc = "done" THEN c ELSE Step(c)
Alone(c) ==
    Finish(Finish(Finish(Finish(Start(c.json, c.signature, c.signing_secret))))).result

C14_JobIdFilled ==
    api_result = "Ok"
        => /\ [job[1] EXCEPT !.tasks = output[1].data.tasks] = output[1].data
           /\ Len(job[1].tasks) = Len(output[1].data.tasks)
           /\ \A i \in 1..Len(job[1].tasks) :
                  /\ job[1].tasks[i].job_id = SomeStr(job[1].id)
                  /\ output[1].data.tasks[i].job_id \in {NoneStr, SomeStr(job[1].id)}
                  /\ [job[1].tasks[i] EXCEPT !.job_id = output[1].data.tasks[i].job_id]
                         = output[1].data.tasks[i]

C14_Witness ==
    /\ api_result = "Ok"
    /\ Len(job[1].tasks) = 2
    /\ output[1].data.tasks[1].job_id = NoneStr
    /\ output[1].data.tasks[2].job_id = SomeStr("j2")
    /\ job[1].tasks[1].job_id = SomeStr("j2")
    /\ job[1].tasks[1].name = SomeStr("export")
    /\ job[1].tag = SomeStr("myjob-123")

\* C15: whenever from_json returns Ok, the Event reflects the payload:
\* event.event is the variant the payload's `event` string names, event.job.id
\* is the payload's job id, and event.job.tasks holds the payload's tasks in
\* their order, each with its id and its result map as the payload gives them.
C15_EventReflectsPayload ==
    (pc = "done" /\ result.kind = "Ok") => Reflects(result.event[1], DocumentTable[json].v)

C15_Witness ==
    /\ Returns("Ok")
    /\ json = ExampleWebhook
    /\ result.event[1].event = "JobFinished"
    /\ result.event[1].job.id = "4b6ee8e2-e293-4805-b48e-a03876d1ec66"
    /\ result.event[1].job.tasks[1].id = "acdf8096-10a1-4ab7-b009-539f5f329cad"
    /\ result.event[1].job.tasks[1].result.val[1].k = "files"
    /\ GivesString(Part(result.event[1].job.tasks[1].result.val[1].v.kids[1], "filename", 0),
                   "file.pdf")

\* C16: create_job makes of an ImportConvertExport a job::Create with exactly
\* three tasks, named "import", "convert" and "export", in a chain: the
\* import is the given ImportUrl; the convert takes "import", with the given
\* input format, output format and timeout; the export is an ExportUrl that
\* takes "convert", with the given inline flag; tag and webhook_url are the
\* given ones.
C16_ImportConvertExport ==
    (options # <<>> /\ call # <<>>)
        => /\ Len(call[1].tasks) = 3
           /\ Keys(call[1].tasks) = {"import", "convert", "export"}
           /\ IsImportConvertExport(Filed(call[1].tasks, "import"),
                                    Filed(call[1].tasks, "convert"),
                                    Filed(call[1].tasks, "export"), options[1])
           /\ call[1].tag = options[1].tag
           /\ call[1].webhook_url = options[1].webhook_url

C16_Witness ==
    /\ options # <<>>
    /\ call # <<>>
    /\ options[1].export_inline
    /\ options[1].input_format = Custom("xyz")
    /\ options[1].tag = SomeStr("myjob-123")
    /\ FieldOf(Filed(call[1].tasks, "convert"), "timeout") = RSome(RU32(60))
    /\ FieldOf(Filed(call[1].tasks, "export"), "inline") = RBool(TRUE)

\* C17: for a task of any variant, to_job_task gives a JSON object with the
\* task's serialized fields and an "operation" member that is Task::operation
\* of the variant; the CreateJobRequest made of a job::Create holds one entry
\* for every task, under the task's name, which is that task's to_job_task
\* object.
C17_RequestOfTasks ==
    request # <<>>
        => /\ Len(request[1].tasks) = Len(call[1].tasks)
           /\ Cardinality(Keys(request[1].tasks)) = Len(request[1].tasks)
           /\ Keys(request[1].tasks) = Keys(call[1].tasks)
           /\ \A i \in 1..Len(call[1].tasks) :
                  /\ Filed(request[1].tasks, call[1].tasks[i].k) = to_job_task(call[1].tasks[i].v)
                  /\ IsJobTask(Filed(request[1].tasks, call[1].tasks[i].k), call[1].tasks[i].v,
                               {TaskRow(call[1].tasks[i].v.variant).fields[n].name :
                                   n \in Serialized(call[1].tasks[i].v)})

C17_Witness ==
    /\ request # <<>>
    /\ options = <<>>
    /\ Keys(request[1].tasks) = {"task-1"}
    /\ call[1].tasks[1].v.variant = "Capture"
    /\ "headers" \notin Keys(request[1].tasks[1].v.kids)
    /\ Filed(request[1].tasks[1].v.kids, "zoom") = JNull
    /\ Filed(request[1].tasks[1].v.kids, "operation") = JStr("capture-website")
    /\ Filed(request[1].tasks[1].v.kids, "output_format") = JStr("xyz")

\* The API name of a Format, as the claim gives it: the lower-case name of
\* the three variants the test names, the string of a Custom.
ApiName(f) ==
    IF f.variant = "Pdf" THEN <<"pdf">>
    ELSE IF f.variant = "Doc" THEN <<"doc">>
    ELSE IF f.variant = "Docx" THEN <<"docx">>
    ELSE IF f.variant = "Custom" THEN <<f.custom>>
    ELSE <<>>

\* C18: every Format serializes to the JSON string of its API name (Pdf to
\* "pdf", Doc to "doc", Docx to "docx", Custom(s) to s); two different
\* variants without data serialize to different strings; and Format::from(s)
\* serializes back to s.
C18_FormatSerializes ==
    serialized # ""
        => /\ ReadDocument(serialized).ok
           /\ ReadDocument(serialized).v.t = "str"
           /\ ApiName(format[1]) # <<>> => ReadDocument(serialized).v = JStr(ApiName(format[1])[1])
           /\ format[1].variant # "Custom"
                  => \A v \in FormatVariants \ {format[1].variant} :
                         Format_to_string(Named(v)) # serialized
           /\ text # <<>> => ReadDocument(serialized).v = JStr(text[1])

C18_Witness ==
    /\ serialized = "\"docx\""
    /\ text = <<"docx">>
    /\ format = <<Named("Docx")>>

\* C19: in every Job handed to a caller, here the job of an Event from_json
\* returns, a task that has a job_id has the id of the job it is in.
\* (Refuted: from_json hands on the job as it was read, with whatever job_id
\* the payload gives a task.)
C19_JobIdOfParent ==
    (pc = "done" /\ result.kind = "Ok")
        => \A i \in 1..Len(result.event[1].job.tasks) :
               result.event[1].job.tasks[i].job_id.some
                   => result.event[1].job.tasks[i].job_id.val = result.event[1].job.id

\* C20: a correctly signed payload in which a task object lacks `id`,
\* `operation` or `status`, or has a `status` string that is none of
\* "waiting", "processing", "finished", "error", makes from_json return
\* Err(Json): no Event is built of the other tasks.
C20_DeficientTaskRejected ==
    (pc = "done" /\ signature = CorrectSignature /\ DocumentTable[json].ok)
        => ((\E task \in TaskObjectsOf(DocumentTable[json].v) : Deficient(task))
               => result = Err("Json", ""))

C20_Witness ==
    /\ Returns("Json")
    /\ signature = CorrectSignature
    /\ event = <<>>
    /\ Cardinality(TaskObjectsOf(DocumentTable[json].v)) = 2
    /\ \E task \in TaskObjectsOf(DocumentTable[json].v) : ~Deficient(task)
    /\ \E task \in TaskObjectsOf(DocumentTable[json].v) :
           \E m \in Members(task, "status") : task.kids[m].v.s = "Finished"

\* The JSON object gives the key once.
GivenOnce(obj, key) == Cardinality(Members(obj, key)) = 1

\* The document names one of the three events, once, and gives `job`, once,
\* as a JSON object.
EventOfJobObject(doc) ==
    /\ doc.t = "obj"
    /\ GivenOnce(doc, "event")
    /\ GivenOnce(doc, "job")
    /\ Part(doc, "event", 1)[1].t = "str"
    /\ KindOf(Part(doc, "event", 1)[1].s) # "none"
    /\ Part(doc, "job", 2)[1].t = "obj"

\* The job object gives `id`, once, as a string, and besides it nothing but
\* a null `tag` or a null `status`, each at most once.
OnlyIdGiven(jobdoc) ==
    /\ GivenOnce(jobdoc, "id")
    /\ Part(jobdoc, "id", 1)[1].t = "str"
    /\ \A m \in 1..Len(jobdoc.kids) :
           \/ jobdoc.kids[m].k = "id"
           \/ /\ jobdoc.kids[m].k \in {"tag", "status"}
              /\ jobdoc.kids[m].v = JNull
              /\ GivenOnce(jobdoc, jobdoc.kids[m].k)

\* What from_json is to return for a job object of a correctly signed event.
JobSnapshotRead(jobdoc, res) ==
    /\ Members(jobdoc, "id") = {} => res = Err("Json", "")
    /\ OnlyIdGiven(jobdoc)
           => /\ res.kind = "Ok"
              /\ res.event[1].job =
                     [id |-> Part(jobdoc, "id", 1)[1].s, tag |-> NoneStr, status |-> NoneStr,
                      tasks |-> <<>>, links |-> NoneMap]

\* C21: of a job snapshot only `id` is required.  A correctly signed event
\* whose `job` object holds `id` alone, or `id` and a null `tag` or `status`,
\* is returned as Ok with tag, status and links absent and no tasks; one
\* whose `job` object holds no `id` is Err(Json).
C21_OnlyIdRequired ==
    (pc = "done" /\ signature = CorrectSignature /\ DocumentTable[json].ok)
        => (EventOfJobObject(DocumentTable[json].v)
               => JobSnapshotRead(Part(DocumentTable[json].v, "job", 2)[1], result))

C21_Witness ==
    /\ Returns("Ok")
    /\ signature = CorrectSignature
    /\ Members(Part(DocumentTable[json].v, "job", 2)[1], "tag") # {}
    /\ Members(Part(DocumentTable[json].v, "job", 2)[1], "status") # {}
    /\ result.event[1].job =
           [id |-> "j1", tag |-> NoneStr, status |-> NoneStr, tasks |-> <<>>, links |-> NoneMap]

\* What a call is to return whose signature string denotes these bytes: the
\* outcome of reading the payload if they are the tag, a mismatch if not.
OutcomeOfBytes(bytes) ==
    IF bytes = Tag THEN Returned(Parsed(EventJsonTable[json]), Tag)
    ELSE Err("SignatureMismatch", "")

\* C22: the outcome of from_json depends on the signature string only through
\* the 32 bytes it denotes: a call with a string of 64 hex digits, of either
\* case or of both, returns what those bytes decide, so the upper-case
\* encoding of the correct tag is accepted as the lower-case one is.
C22_SignatureByBytes ==
    (pc = "done" /\ WellFormed(signature))
        => /\ expected_signature = HexBytes(signature)
           /\ result = OutcomeOfBytes(HexBytes(signature))
           /\ UpperText(signature) = UpperText(CorrectSignature)
                  => result.kind \in {"Ok", "Json"}

C22_Witness ==
    /\ Returns("Ok")
    /\ signature = UpperText(CorrectSignature)
    /\ signature # CorrectSignature
    /\ result.event[1].signature = Tag

\* The keys the event, the job and a task define.
DefinedEventKeys == {"event", "job"}
DefinedJobKeys == {"id", "tag", "status", "tasks", "links"}
DefinedTaskKeys ==
    {"id", "job_id", "name", "operation", "status", "message", "code", "retry_of_task_id",
     "retries", "engine", "engine_version", "payload", "result", "links"}

\* A JSON object without the members whose key is none of `keys`; any other
\* value as it is.
Without(obj, keys) ==
    IF obj.t = "obj"
    THEN [obj EXCEPT !.kids = SelectSeq(obj.kids, LAMBDA m : m.k \in keys)]
    ELSE obj

\* The array with every element replaced by what `each` gives for it.
EachOf(arr, each(_)) ==
    IF arr.t = "arr" THEN [arr EXCEPT !.kids = [i \in 1..Len(arr.kids) |-> each(arr.kids[i])]]
    ELSE arr

\* The member of the object with its value replaced by what `inner` gives.
Within(obj, key, inner(_)) ==
    IF obj.t = "obj"
    THEN [obj EXCEPT !.kids = [i \in 1..Len(obj.kids) |->
                                  IF obj.kids[i].k = key
                                  THEN [k |-> key, v |-> inner(obj.kids[i].v)]
                                  ELSE obj.kids[i]]]
    ELSE obj

\* The payload's document without the keys that the event, the job and the
\* tasks do not define.
KnownOfTask(task) == Without(task, DefinedTaskKeys)
KnownOfTasks(tasks) == EachOf(tasks, KnownOfTask)
KnownOfJob(jobdoc) == Within(Without(jobdoc, DefinedJobKeys), "tasks", KnownOfTasks)
KnownOfEvent(doc) == Within(Without(doc, DefinedEventKeys), "job", KnownOfJob)

\* The result is Ok with the event kind and the job of the EventJson.
SameEvent(res, plain) ==
    /\ res.kind = "Ok"
    /\ res.event[1].event = plain.event
    /\ res.event[1].job.id = plain.job.id
    /\ res.event[1].job.tasks = plain.job.tasks
    /\ res.event[1].job = plain.job

\* C23: keys that the event, the job and the tasks do not define are ignored.
\* If a correctly signed payload is a valid event once such keys are taken
\* out of it, then with them it is Ok as well, with the same event kind, job
\* id and tasks.
C23_UnknownKeysIgnored ==
    (pc = "done" /\ signature = CorrectSignature /\ DocumentTable[json].ok)
        => (DeEventJson(KnownOfEvent(DocumentTable[json].v)).ok
               => SameEvent(result, DeEventJson(KnownOfEvent(DocumentTable[json].v)).v))

C23_Witness ==
    /\ Returns("Ok")
    /\ signature = CorrectSignature
    /\ Members(DocumentTable[json].v, "created_at") # {}
    /\ Members(Part(DocumentTable[json].v, "job", 2)[1], "ended_at") # {}
    /\ \E task \in TaskObjectsOf(DocumentTable[json].v) :
           Members(task, "percent") # {} /\ Members(task, "depends_on_task_ids") # {}
    /\ KnownOfEvent(DocumentTable[json].v) # DocumentTable[json].v
    /\ result.event[1].job.tasks[1].name = SomeStr("import")

\* The tasks of the job the payload's document gives, as a sequence of JSON
\* values; none if it gives no array of tasks.
TaskDocs(doc) ==
    IF TasksPart(Part(doc, "job", 2)) = <<>> THEN <<>>
    ELSE TasksPart(Part(doc, "job", 2))[1].kids

\* The task, read from a JSON object, holds as error_code what the object
\* gives under "code" and holds no credits, whatever the object gives under
\* "credits".
CodeOnly(task, obj) ==
    /\ ~task.credits.some
    /\ task.error_code.some => GivesString(Part(obj, "code", 7), task.error_code.val)
    /\ GivesString(Part(obj, "code", 7), task.error_code.val) => task.error_code.some

TasksNamed(tasks, name) == {i \in 1..Len(tasks) : tasks[i].name = SomeStr(name)}

\* What get_task_by_name is to return: a task with that name if the job has
\* one, None if it has none; never a task without a name.
TaskByName(tasks, name, ret) ==
    /\ TasksNamed(tasks, name) # {} => (ret # <<>> /\ ret[1] \in TasksNamed(tasks, name))
    /\ TasksNamed(tasks, name) = {} => ret = <<>>
    /\ ret # <<>> => (ret[1] \in 1..Len(tasks) /\ tasks[ret[1]].name.some)

\* C25: get_task_by_name(name) returns a task of the job whose name is
\* present and is `name` whenever the job has such a task, and None
\* otherwise; it never returns a task without a name; and from the call to
\* its return the job stays as it is.
C25_TaskByName ==
    /\ [](get_pc = "done" => TaskByName(this[1].tasks, by_name, found))
    /\ [][get_pc = "find" => (this' = this /\ by_name' = by_name)]_vars

C25_Witness ==
    /\ get_pc = "done"
    /\ by_name = ""
    /\ Len(this[1].tasks) = 2
    /\ this[1].tasks[1].name = NoneStr
    /\ this[1].tasks[2].name = SomeStr("")
    /\ found = <<2>>

=============================================================================
